---------------------------- MODULE Spec2Model ----------------------------
(***************************************************************************)
(* Model of the spacewar core of tcgarvin/peter-games: toroidal geometry,  *)
(* ship and asteroid physics, collision prediction, steering,             *)
(* fragmentation, delivery-zone interaction and the game loop of           *)
(* src/spacewar/spacewar.py.                                               *)
(*                                                                         *)
(* Numbers.  The program computes with floats.  The model computes in      *)
(* fixed point: a length is an integer number of 1/1000 pixel, a velocity  *)
(* an integer number of 1/1000 pixel per frame, an angle an integer number *)
(* of degrees.  Comparisons of a square root with a threshold are made on  *)
(* the squares and are exact; a square root used as a value is rounded     *)
(* down to 1/1000 pixel; a product with a fraction (drag, cos, the clamp   *)
(* scale) is rounded to the nearest 1/1000.  TLC integers are 32 bits      *)
(* wide, so squares of distances are kept as two-limb numbers.             *)
(***************************************************************************)
EXTENDS Integers, Sequences, FiniteSets, TLC

\* the fixed-point unit: UNIT model units are one pixel (or one pixel/frame)
UNIT == 10 * 100

(***************************************************************************)
(* Program constants (src/spacewar/entities.py:16-42), lengths in pixels.  *)
(***************************************************************************)
SCREEN_WIDTH == 1600
SCREEN_HEIGHT == 1200
FPS == 60
SHIP_SIZE == 20
\* SHIP_SPEED = 0.2 pixel/frame^2, in 1/1000 pixel
SHIP_SPEED == 200
SHIP_ROTATION_SPEED == 3
\* SHIP_DRAG = 0.005, in 1/1000
SHIP_DRAG == 5
MAX_VELOCITY == 5
MAX_ASTEROIDS == 15
ZONE_SIZE == 60
ZONE_SPAWN_INTERVAL == 10 * FPS
\* MAX_PICKUP_VELOCITY = 1.0 pixel/frame
MAX_PICKUP_VELOCITY == 1
ZONE_ACTIVE_TIME == 20 * FPS
INTERACTION_COOLDOWN == 1 * FPS

ASTEROID_SIZES == [large |-> 40, medium |-> 20, small |-> 10]

W == SCREEN_WIDTH * UNIT
H == SCREEN_HEIGHT * UNIT

(***************************************************************************)
(* Arithmetic helpers.                                                     *)
(***************************************************************************)
Abs(n) == IF n < 0 THEN -n ELSE n

Min2(a, b) == IF a < b THEN a ELSE b

\* a / b for b > 0, rounded to the nearest integer (halves away from zero):
\* the fixed-point image of a float product or quotient
RDiv(a, b) ==
    IF a >= 0 THEN (2 * a + b) \div (2 * b)
    ELSE -((2 * (-a) + b) \div (2 * b))

RECURSIVE IsqrtIter(_, _, _)
IsqrtIter(n, lo, hi) ==
    \* the largest r in lo..hi with r*r <= n, given lo*lo <= n
    IF lo >= hi THEN lo
    ELSE LET mid == (lo + hi + 1) \div 2
         IN  IF mid * mid <= n THEN IsqrtIter(n, mid, hi)
             ELSE IsqrtIter(n, lo, mid - 1)

\* math.sqrt of a number below 2^31, rounded down (46340^2 < 2^31)
Isqrt(n) == IsqrtIter(n, 0, 46340)

\* Two-limb naturals <<hi, lo>> standing for hi * 10^6 + lo, 0 <= lo < 10^6
BigBase == 1000 * 1000

\* n * n for 0 <= |n| < 2000000
BigSq(m) ==
    LET n    == Abs(m)
        a    == n \div 1000
        b    == n % 1000
        mid  == 2 * a * b
        lo0  == (mid % 1000) * 1000 + b * b
    IN  <<a * a + (mid \div 1000) + (lo0 \div BigBase), lo0 % BigBase>>

BigAdd(p, q) ==
    LET lo0 == p[2] + q[2]
    IN  <<p[1] + q[1] + (lo0 \div BigBase), lo0 % BigBase>>

BigLess(p, q) == p[1] < q[1] \/ (p[1] = q[1] /\ p[2] < q[2])

BigLeq(p, q) == ~BigLess(q, p)

RECURSIVE BigIsqrtIter(_, _, _)
BigIsqrtIter(n, lo, hi) ==
    IF lo >= hi THEN lo
    ELSE LET mid == (lo + hi + 1) \div 2
         IN  IF BigLeq(BigSq(mid), n) THEN BigIsqrtIter(n, mid, hi)
             ELSE BigIsqrtIter(n, lo, mid - 1)

\* math.sqrt of a two-limb number, rounded down
BigIsqrt(n) == BigIsqrtIter(n, 0, 1999999)

\* 1000 * cos(d degrees), d = 0..90, rounded
CosQuarter ==
    <<1000, 1000, 999, 999, 998, 996, 995, 993, 990, 988,
      985, 982, 978, 974, 970, 966, 961, 956, 951, 946,
      940, 934, 927, 921, 914, 906, 899, 891, 883, 875,
      866, 857, 848, 839, 829, 819, 809, 799, 788, 777,
      766, 755, 743, 731, 719, 707, 695, 682, 669, 656,
      643, 629, 616, 602, 588, 574, 559, 545, 530, 515,
      500, 485, 469, 454, 438, 423, 407, 391, 375, 358,
      342, 326, 309, 292, 276, 259, 242, 225, 208, 191,
      174, 156, 139, 122, 105, 87, 70, 52, 35, 17, 0>>

\* 1000 * math.cos(math.radians(deg)) for an integer number of degrees
Cos(deg) ==
    LET d == deg % 360
    IN  IF d <= 90 THEN CosQuarter[d + 1]
        ELSE IF d <= 180 THEN -CosQuarter[180 - d + 1]
        ELSE IF d <= 270 THEN -CosQuarter[d - 180 + 1]
        ELSE CosQuarter[360 - d + 1]

\* 1000 * math.sin(math.radians(deg))
Sin(deg) == Cos(deg - 90)

(***************************************************************************)
(* Entity (src/spacewar/entities.py:44-82).                                *)
(***************************************************************************)
\* Entity.check_boundary: one wrap per axis, and only strictly beyond the edge
check_boundary(e) ==
    LET nx == IF e.x < 0 THEN e.x + W
              ELSE IF e.x > W THEN e.x - W
              ELSE e.x
        ny == IF e.y < 0 THEN e.y + H
              ELSE IF e.y > H THEN e.y - H
              ELSE e.y
    IN  [e EXCEPT !.x = nx, !.y = ny]

\* the square of a get_distance that leaves out the wrap of lines 75-76
get_distance_sq_flat(a, b) ==
    BigAdd(BigSq(Abs(a.x - b.x)), BigSq(Abs(a.y - b.y)))

\* the square of Entity.get_distance, exact
get_distance_sq(a, b) ==
    LET dx == Min2(Abs(a.x - b.x), W - Abs(a.x - b.x))
        dy == Min2(Abs(a.y - b.y), H - Abs(a.y - b.y))
    IN  BigAdd(BigSq(dx), BigSq(dy))

\* Entity.get_distance
get_distance(a, b) == BigIsqrt(get_distance_sq(a, b))

\* Entity.is_colliding: distance < self.size + other.size
is_colliding(a, b) == BigLess(get_distance_sq(a, b), BigSq(a.size + b.size))

(***************************************************************************)
(* Ship (src/spacewar/entities.py:85-182).                                 *)
(***************************************************************************)
\* Ship.__init__
NewShip(x, y, angle, ai) ==
    [x |-> x, y |-> y, size |-> SHIP_SIZE * UNIT, destroyed |-> FALSE,
     angle |-> angle, velocity_x |-> 0, velocity_y |-> 0,
     rotation |-> 0, thrust |-> 0, ai_controlled |-> ai,
     has_cargo |-> FALSE, credits |-> 0, interaction_cooldown |-> 0]

\* a set_controls that turns the ship at once
set_controls_turning(s, thrust, rotation) ==
    [s EXCEPT !.thrust = thrust, !.rotation = rotation,
              !.angle = (s.angle + rotation * SHIP_ROTATION_SPEED) % 360]

\* Ship.set_controls
set_controls(s, thrust, rotation) ==
    [s EXCEPT !.thrust = thrust, !.rotation = rotation]

\* the square of the ship's speed (speeds stay far below 46340)
SpeedSq(vx, vy) == vx * vx + vy * vy

\* Ship.update with lines 116-121 left out: no velocity limit
LimitVelocity_none(v) == v

\* lines 116-121: the velocity limit, applied by Ship.update only while thrusting
LimitVelocity(v) ==
    LET velocity == Isqrt(SpeedSq(v[1], v[2]))
    IN  IF SpeedSq(v[1], v[2]) > (MAX_VELOCITY * UNIT) * (MAX_VELOCITY * UNIT)
        THEN <<RDiv(v[1] * MAX_VELOCITY * UNIT, velocity),
               RDiv(v[2] * MAX_VELOCITY * UNIT, velocity)>>
        ELSE v

\* lines 110-114: the velocity after the thrust, before the limit
ThrustVelocity(s, angle) ==
    <<s.velocity_x + RDiv(Cos(angle) * SHIP_SPEED * s.thrust, 1000),
      s.velocity_y + RDiv(Sin(angle) * SHIP_SPEED * s.thrust, 1000)>>

\* lines 107-121: thrust along the heading, then the limit
ApplyThrust(s, angle) ==
    IF s.thrust # 0
    THEN LimitVelocity(ThrustVelocity(s, angle))
    ELSE <<s.velocity_x, s.velocity_y>>

\* lines 123-125: velocity *= (1 - SHIP_DRAG)
ApplyDrag(v) == RDiv(v * (1000 - SHIP_DRAG), 1000)

\* Ship.update
Ship_update(s) ==
    LET angle == (s.angle + s.rotation * SHIP_ROTATION_SPEED) % 360
        v     == ApplyThrust(s, angle)
        vx    == ApplyDrag(v[1])
        vy    == ApplyDrag(v[2])
        moved == check_boundary([s EXCEPT !.angle = angle,
                                          !.velocity_x = vx, !.velocity_y = vy,
                                          !.x = s.x + vx, !.y = s.y + vy])
    IN  [moved EXCEPT !.interaction_cooldown =
                        IF s.interaction_cooldown > 0
                        THEN s.interaction_cooldown - 1
                        ELSE s.interaction_cooldown]


(***************************************************************************)
(* Asteroid (src/spacewar/entities.py:185-260).  The rotation angle and    *)
(* the vertices are drawing data and are left out.                         *)
(***************************************************************************)
SizeCategories == {"large", "medium", "small"}

\* Asteroid.__init__, with the velocity it draws at random given as vx, vy
NewAsteroid(x, y, size_category, vx, vy) ==
    [x |-> x, y |-> y, size |-> ASTEROID_SIZES[size_category] * UNIT,
     destroyed |-> FALSE, size_category |-> size_category,
     velocity_x |-> vx, velocity_y |-> vy]

\* Asteroid.update
Asteroid_update(a) ==
    check_boundary([a EXCEPT !.x = a.x + a.velocity_x, !.y = a.y + a.velocity_y])

\* line 241 handing the parent's category on to the pieces
ChildCategory_same(size_category) == size_category

\* line 241: the category of the pieces
ChildCategory(size_category) ==
    IF size_category = "medium" THEN "small" ELSE "medium"

\* lines 247-258 with the offsets drawn from [-size, size]
NewPiece_wide(a, draw) ==
    [NewAsteroid(a.x + (draw[1] * a.size) \div 2,
                 a.y + (draw[2] * a.size) \div 2,
                 IF a.size_category = "medium" THEN "small" ELSE "medium", 0, 0)
       EXCEPT !.velocity_x = RDiv(a.velocity_x * 8, 10) + draw[3],
              !.velocity_y = RDiv(a.velocity_y * 8, 10) + draw[4]]

\* lines 247-258: one piece; draw = <<ox, oy, pvx, pvy>>, the offsets as
\* fractions of size/2 in -2..2 halves (ox * size / 4), the velocity
\* perturbations in 1/1000 pixel per frame
NewPiece(a, draw) ==
    [NewAsteroid(a.x + (draw[1] * a.size) \div 4,
                 a.y + (draw[2] * a.size) \div 4,
                 ChildCategory(a.size_category), 0, 0)
       EXCEPT !.velocity_x = RDiv(a.velocity_x * 8, 10) + draw[3],
              !.velocity_y = RDiv(a.velocity_y * 8, 10) + draw[4]]

\* Asteroid.break_apart; draws is the sequence of the random draws of the
\* pieces, its length the value of random.randint(2, 3)
break_apart(a, draws) ==
    IF a.size_category = "small" THEN <<>>
    ELSE [i \in 1..Len(draws) |-> NewPiece(a, draws[i])]

(***************************************************************************)
(* DeliveryZone (src/spacewar/entities.py:263-326).                        *)
(***************************************************************************)
\* DeliveryZone.__init__
NewZone(x, y, zone_type) ==
    [x |-> x, y |-> y, size |-> ZONE_SIZE * UNIT, destroyed |-> FALSE,
     zone_type |-> zone_type, active_time |-> ZONE_ACTIVE_TIME]

\* an update under which only pickup zones age
Zone_update_pickup(z) ==
    IF z.zone_type = "pickup" THEN [z EXCEPT !.active_time = z.active_time - 1]
    ELSE z

\* DeliveryZone.update
Zone_update(z) == [z EXCEPT !.active_time = z.active_time - 1]

\* an is_expired that lets a zone live one frame longer
is_expired_late(z) == z.active_time < 0

\* DeliveryZone.is_expired
is_expired(z) == z.active_time <= 0

\* check_ship_interaction with the speed test of lines 306-308 left out
check_ship_interaction_any_speed(z, ship) ==
    IF ~is_colliding(z, ship)
    THEN [ok |-> FALSE, ship |-> ship, zone |-> z]
    ELSE IF ship.interaction_cooldown > 0
    THEN [ok |-> FALSE, ship |-> ship, zone |-> z]
    ELSE IF z.zone_type = "pickup" /\ ~ship.has_cargo
    THEN [ok |-> TRUE, zone |-> z,
          ship |-> [ship EXCEPT !.has_cargo = TRUE,
                                !.interaction_cooldown = INTERACTION_COOLDOWN]]
    ELSE IF z.zone_type = "dropoff" /\ ship.has_cargo
    THEN [ok |-> TRUE, zone |-> z,
          ship |-> [ship EXCEPT !.has_cargo = FALSE,
                                !.credits = ship.credits + 1,
                                !.interaction_cooldown = INTERACTION_COOLDOWN]]
    ELSE [ok |-> FALSE, ship |-> ship, zone |-> z]

\* check_ship_interaction with the cooldown test of lines 310-312 left out
check_ship_interaction_no_cooldown(z, ship) ==
    IF ~is_colliding(z, ship)
    THEN [ok |-> FALSE, ship |-> ship, zone |-> z]
    ELSE IF SpeedSq(ship.velocity_x, ship.velocity_y)
              > (MAX_PICKUP_VELOCITY * UNIT) * (MAX_PICKUP_VELOCITY * UNIT)
    THEN [ok |-> FALSE, ship |-> ship, zone |-> z]
    ELSE IF z.zone_type = "pickup" /\ ~ship.has_cargo
    THEN [ok |-> TRUE, zone |-> z,
          ship |-> [ship EXCEPT !.has_cargo = TRUE,
                                !.interaction_cooldown = INTERACTION_COOLDOWN]]
    ELSE IF z.zone_type = "dropoff" /\ ship.has_cargo
    THEN [ok |-> TRUE, zone |-> z,
          ship |-> [ship EXCEPT !.has_cargo = FALSE,
                                !.credits = ship.credits + 1,
                                !.interaction_cooldown = INTERACTION_COOLDOWN]]
    ELSE [ok |-> FALSE, ship |-> ship, zone |-> z]

\* a check_ship_interaction whose dropoff pays and leaves the cargo on board
check_ship_interaction_keeping_cargo(z, ship) ==
    IF ~is_colliding(z, ship)
    THEN [ok |-> FALSE, ship |-> ship, zone |-> z]
    ELSE IF SpeedSq(ship.velocity_x, ship.velocity_y)
              > (MAX_PICKUP_VELOCITY * UNIT) * (MAX_PICKUP_VELOCITY * UNIT)
    THEN [ok |-> FALSE, ship |-> ship, zone |-> z]
    ELSE IF ship.interaction_cooldown > 0
    THEN [ok |-> FALSE, ship |-> ship, zone |-> z]
    ELSE IF z.zone_type = "pickup" /\ ~ship.has_cargo
    THEN [ok |-> TRUE, zone |-> z,
          ship |-> [ship EXCEPT !.has_cargo = TRUE,
                                !.interaction_cooldown = INTERACTION_COOLDOWN]]
    ELSE IF z.zone_type = "dropoff" /\ ship.has_cargo
    THEN [ok |-> TRUE, zone |-> z,
          ship |-> [ship EXCEPT !.credits = ship.credits + 1,
                                !.interaction_cooldown = INTERACTION_COOLDOWN]]
    ELSE [ok |-> FALSE, ship |-> ship, zone |-> z]

\* a check_ship_interaction that uses the zone up: a success leaves it with
\* no time
check_ship_interaction_consuming(z, ship) ==
    IF ~is_colliding(z, ship)
    THEN [ok |-> FALSE, ship |-> ship, zone |-> z]
    ELSE IF SpeedSq(ship.velocity_x, ship.velocity_y)
              > (MAX_PICKUP_VELOCITY * UNIT) * (MAX_PICKUP_VELOCITY * UNIT)
    THEN [ok |-> FALSE, ship |-> ship, zone |-> z]
    ELSE IF ship.interaction_cooldown > 0
    THEN [ok |-> FALSE, ship |-> ship, zone |-> z]
    ELSE IF z.zone_type = "pickup" /\ ~ship.has_cargo
    THEN [ok |-> TRUE, zone |-> [z EXCEPT !.active_time = 0],
          ship |-> [ship EXCEPT !.has_cargo = TRUE,
                                !.interaction_cooldown = INTERACTION_COOLDOWN]]
    ELSE IF z.zone_type = "dropoff" /\ ship.has_cargo
    THEN [ok |-> TRUE, zone |-> [z EXCEPT !.active_time = 0],
          ship |-> [ship EXCEPT !.has_cargo = FALSE,
                                !.credits = ship.credits + 1,
                                !.interaction_cooldown = INTERACTION_COOLDOWN]]
    ELSE [ok |-> FALSE, ship |-> ship, zone |-> z]

\* DeliveryZone.check_ship_interaction: the value returned, and the ship and
\* the zone (self) after
check_ship_interaction(z, ship) ==
    IF ~is_colliding(z, ship)
    THEN [ok |-> FALSE, ship |-> ship, zone |-> z]
    ELSE IF SpeedSq(ship.velocity_x, ship.velocity_y)
              > (MAX_PICKUP_VELOCITY * UNIT) * (MAX_PICKUP_VELOCITY * UNIT)
    THEN [ok |-> FALSE, ship |-> ship, zone |-> z]
    ELSE IF ship.interaction_cooldown > 0
    THEN [ok |-> FALSE, ship |-> ship, zone |-> z]
    ELSE IF z.zone_type = "pickup" /\ ~ship.has_cargo
    THEN [ok |-> TRUE, zone |-> z,
          ship |-> [ship EXCEPT !.has_cargo = TRUE,
                                !.interaction_cooldown = INTERACTION_COOLDOWN]]
    ELSE IF z.zone_type = "dropoff" /\ ship.has_cargo
    THEN [ok |-> TRUE, zone |-> z,
          ship |-> [ship EXCEPT !.has_cargo = FALSE,
                                !.credits = ship.credits + 1,
                                !.interaction_cooldown = INTERACTION_COOLDOWN]]
    ELSE [ok |-> FALSE, ship |-> ship, zone |-> z]

(***************************************************************************)
(* Collision prediction (src/spacewar/ai/utils/prediction.py).             *)
(* A time to collision is a number of 1/10 frame, rounded down;            *)
(* float('inf') is Infinity.  A call that raises returns raised = TRUE.    *)
(***************************************************************************)
TIME_UNIT == UNIT \div 100

Infinity == 2147483647

\* lines 31-49: one wrap of a predicted coordinate
WrapFuture(p, extent) ==
    IF p < 0 THEN p + extent
    ELSE IF p > extent THEN p - extent
    ELSE p

\* lines 23-56: the square of future_distance
FutureDistanceSq(ship, asteroid, prediction_time) ==
    LET sx == WrapFuture(ship.x + ship.velocity_x * prediction_time, W)
        sy == WrapFuture(ship.y + ship.velocity_y * prediction_time, H)
        ax == WrapFuture(asteroid.x + asteroid.velocity_x * prediction_time, W)
        ay == WrapFuture(asteroid.y + asteroid.velocity_y * prediction_time, H)
        dx == Min2(Abs(sx - ax), W - Abs(sx - ax))
        dy == Min2(Abs(sy - ay), H - Abs(sy - ay))
    IN  BigAdd(BigSq(dx), BigSq(dy))

\* line 59: future_distance < ship.size + asteroid.size + 10
WillCollide(ship, asteroid, prediction_time) ==
    BigLess(FutureDistanceSq(ship, asteroid, prediction_time),
            BigSq(ship.size + asteroid.size + 10 * UNIT))

\* lines 62-74: time_to_collision of a predicted collision
TimeToCollision(ship, asteroid, prediction_time) ==
    LET rel_vel_x        == asteroid.velocity_x - ship.velocity_x
        rel_vel_y        == asteroid.velocity_y - ship.velocity_y
        current_distance == get_distance(ship, asteroid)
        future_distance  ==
            BigIsqrt(FutureDistanceSq(ship, asteroid, prediction_time))
        denominator      == current_distance - (ship.size + asteroid.size)
        numerator        == prediction_time * TIME_UNIT
                              * (current_distance - future_distance)
    IN  \* rel_velocity < 0.01
        IF SpeedSq(rel_vel_x, rel_vel_y) < (UNIT \div 100) * (UNIT \div 100)
        THEN [raised |-> FALSE, value |-> prediction_time * TIME_UNIT]
        ELSE IF denominator = 0
        THEN [raised |-> TRUE, value |-> 0]        \* ZeroDivisionError
        ELSE IF denominator > 0
        THEN [raised |-> FALSE, value |-> numerator \div denominator]
        ELSE [raised |-> FALSE, value |-> (-numerator) \div (-denominator)]

\* predict_collision
predict_collision(ship, asteroid, prediction_time) ==
    IF WillCollide(ship, asteroid, prediction_time)
    THEN LET t == TimeToCollision(ship, asteroid, prediction_time)
         IN  [raised |-> t.raised, will_collide |-> TRUE,
              time_to_collision |-> t.value]
    ELSE [raised |-> FALSE, will_collide |-> FALSE,
          time_to_collision |-> Infinity]

\* dangerous.sort(key=lambda x: x[2]): a stable sort, here by insertion
RECURSIVE InsertByTime(_, _)
InsertByTime(sorted, e) ==
    IF sorted = <<>> THEN <<e>>
    ELSE IF e.time_to_collision < Head(sorted).time_to_collision
    THEN <<e>> \o sorted
    ELSE <<Head(sorted)>> \o InsertByTime(Tail(sorted), e)

\* find_dangerous_asteroids with the sort of line 111 left out
SortByTime_none(seq) == seq

RECURSIVE SortByTime(_)
SortByTime(seq) ==
    IF seq = <<>> THEN <<>>
    ELSE InsertByTime(SortByTime(SubSeq(seq, 1, Len(seq) - 1)), seq[Len(seq)])

\* lines 96-108: the loop over asteroids i..Len(asteroids)
RECURSIVE ScanAsteroids(_, _, _, _, _)
ScanAsteroids(ship, asteroids, max_distance, prediction_time, i) ==
    IF i > Len(asteroids) THEN [raised |-> FALSE, dangerous |-> <<>>]
    ELSE LET asteroid == asteroids[i]
             rest     == ScanAsteroids(ship, asteroids, max_distance,
                                       prediction_time, i + 1)
         IN  \* distance > max_distance: skipped
             IF BigLess(BigSq(max_distance), get_distance_sq(ship, asteroid))
             THEN rest
             ELSE LET p == predict_collision(ship, asteroid, prediction_time)
                  IN  IF p.raised THEN [raised |-> TRUE, dangerous |-> <<>>]
                      ELSE IF p.will_collide
                      THEN [raised |-> rest.raised,
                            dangerous |->
                              IF rest.raised THEN <<>>
                              ELSE <<[asteroid |-> i,
                                      distance |-> get_distance(ship, asteroid),
                                      time_to_collision |-> p.time_to_collision]>>
                                   \o rest.dangerous]
                      ELSE rest

\* find_dangerous_asteroids; an entry names its asteroid by its index
find_dangerous_asteroids(ship, asteroids, max_distance, prediction_time) ==
    LET scan == ScanAsteroids(ship, asteroids, max_distance, prediction_time, 1)
    IN  [raised |-> scan.raised, dangerous |-> SortByTime(scan.dangerous)]

(***************************************************************************)
(* Navigation (src/spacewar/ai/utils/navigation.py).                       *)
(***************************************************************************)
\* get_steering_direction with the difference of line 36 not normalized
get_steering_direction_raw(current_angle, target_angle) ==
    LET angle_diff == target_angle - current_angle
    IN  IF Abs(angle_diff) < 5 THEN 0
        ELSE IF angle_diff > 0 THEN 1
        ELSE -1

\* get_steering_direction with a tolerance of line 38 narrower than one turn
\* of SHIP_ROTATION_SPEED
get_steering_direction_narrow(current_angle, target_angle) ==
    LET angle_diff == ((target_angle - current_angle + 180) % 360) - 180
    IN  IF Abs(angle_diff) < 1 THEN 0
        ELSE IF angle_diff > 0 THEN 1
        ELSE -1

\* get_steering_direction
get_steering_direction(current_angle, target_angle) ==
    LET angle_diff == ((target_angle - current_angle + 180) % 360) - 180
    IN  IF Abs(angle_diff) < 5 THEN 0
        ELSE IF angle_diff > 0 THEN 1
        ELSE -1

\* estimate_braking_distance; desired_speed in 1/1000 pixel per frame.
\* frames = log(desired/current) / log(1 - drag) and
\* (1 - drag) ** frames = desired/current, so the distance returned is
\* current_speed * (1 - desired/current) / SHIP_DRAG; math.log raises on an
\* argument that is not positive, the divisions on a zero denominator
estimate_braking_distance(ship, desired_speed) ==
    LET current_speed == Isqrt(SpeedSq(ship.velocity_x, ship.velocity_y))
    IN  IF SpeedSq(ship.velocity_x, ship.velocity_y) <= desired_speed * desired_speed
           /\ desired_speed >= 0
        THEN [raised |-> FALSE, value |-> 0]
        ELSE IF desired_speed <= UNIT \div 100
        THEN [raised |-> FALSE, value |-> (current_speed * 1000) \div SHIP_DRAG]
        ELSE IF current_speed = 0 \/ desired_speed <= 0
        THEN [raised |-> TRUE, value |-> 0]
        ELSE [raised |-> FALSE,
              value |-> ((current_speed - desired_speed) * 1000) \div SHIP_DRAG]


(***************************************************************************)
(* Ship AI (src/spacewar/ai/original.py, cautious.py, delivery.py).        *)
(* An AI instance is a record of its fields; angles are whole degrees.     *)
(* A field a variant does not have keeps the value it is created with.     *)
(***************************************************************************)
Variants == {"original", "cautious", "delivery"}

\* the AI constants of the three modules (pixels, frames)
DANGER_DISTANCE == [original |-> 100, cautious |-> 150, delivery |-> 100]
REACTION_DISTANCE == [original |-> 150, cautious |-> 200, delivery |-> 150]
PREDICTION_TIME == [original |-> 60, cautious |-> 90, delivery |-> 60]
COURSE_CHANGE_DELAY == 30

\* Python's None
None == [none |-> TRUE]

\* the cross product of the direction (dx, dy) and heading theta: negative
\* while theta is short of the direction, positive beyond it
AngleCross(dx, dy, theta) == dx * Sin(theta) - dy * Cos(theta)

\* the least heading in lo..hi at or beyond the direction (dx, dy), hi being
\* at or beyond it
RECURSIVE LeastBeyond(_, _, _, _)
LeastBeyond(dx, dy, lo, hi) ==
    IF lo >= hi THEN hi
    ELSE IF AngleCross(dx, dy, (lo + hi) \div 2) >= 0
    THEN LeastBeyond(dx, dy, lo, (lo + hi) \div 2)
    ELSE LeastBeyond(dx, dy, ((lo + hi) \div 2) + 1, hi)

\* the heading in base..base+90 nearest to the direction (dx, dy)
NearestAngle(dx, dy, base) ==
    LET t == LeastBeyond(dx, dy, base, base + 90)
    IN  IF t > base /\ -AngleCross(dx, dy, t - 1) < AngleCross(dx, dy, t)
        THEN t - 1 ELSE t

\* math.degrees(math.atan2(dy, dx)) % 360, to the nearest degree
Atan2Deg(dy, dx) ==
    LET m  == IF Abs(dx) > Abs(dy) THEN Abs(dx) ELSE Abs(dy)
        k  == (m \div (1000 * 1000)) + 1
        sx == IF dx >= 0 THEN dx \div k ELSE -((-dx) \div k)
        sy == IF dy >= 0 THEN dy \div k ELSE -((-dy) \div k)
        base == IF sx > 0 /\ sy >= 0 THEN 0
                ELSE IF sx <= 0 /\ sy > 0 THEN 90
                ELSE IF sx < 0 /\ sy <= 0 THEN 180
                ELSE 270
    IN  IF sx = 0 /\ sy = 0 THEN 0
        ELSE NearestAngle(sx, sy, base) % 360

\* get_angle_to_target (navigation.py:9-23)
get_angle_to_target(ship, target_x, target_y) ==
    Atan2Deg(target_y - ship.y, target_x - ship.x)

\* (target - current + 180) % 360 - 180
AngleDiff(target, current) == ((target - current + 180) % 360) - 180

\* the rotation towards a difference, 0 inside the tolerance
RotationFor(angle_diff, tolerance) ==
    IF Abs(angle_diff) < tolerance THEN 0
    ELSE IF angle_diff > 0 THEN 1
    ELSE -1

\* math.sqrt(velocity_x**2 + velocity_y**2) > limit, limit in 1/1000 pixel
FasterThan(ship, limit) ==
    SpeedSq(ship.velocity_x, ship.velocity_y) > limit * limit

\* math.sqrt(velocity_x**2 + velocity_y**2) < limit
SlowerThan(ship, limit) ==
    SpeedSq(ship.velocity_x, ship.velocity_y) < limit * limit

\* BaseShipAI.__init__ without the variant's __init__ after it: the mode is
\* still the one the base class sets
NewAI_base(variant, current_target_angle) ==
    [variant |-> variant, course_change_timer |-> 0,
     current_target_angle |-> current_target_angle,
     current_mode |-> "initialize", target_zone |-> None,
     approach_phase |-> "direct", braking_started |-> FALSE,
     safe_spot |-> None]

\* BaseShipAI.__init__ and the variant's __init__; the target angle is the
\* value of random.uniform(0, 360); safe_spot holds safe_spot_x and
\* safe_spot_y, which are set and cleared together
NewAI(variant, current_target_angle) ==
    [variant |-> variant, course_change_timer |-> 0,
     current_target_angle |-> current_target_angle,
     current_mode |-> "cruise", target_zone |-> None,
     approach_phase |-> "direct", braking_started |-> FALSE,
     safe_spot |-> None]

\* _find_closest_asteroid: the index of the closest asteroid from i on, 0 for
\* None; best is the closest before i
RECURSIVE ClosestFrom(_, _, _, _)
ClosestFrom(ship, asteroids, i, best) ==
    IF i > Len(asteroids) THEN best
    ELSE ClosestFrom(ship, asteroids, i + 1,
                     IF best = 0
                        \/ BigLess(get_distance_sq(ship, asteroids[i]),
                                   get_distance_sq(ship, asteroids[best]))
                     THEN i ELSE best)

_find_closest_asteroid(ship, asteroids) == ClosestFrom(ship, asteroids, 1, 0)

\* dangerous.sort(key=lambda x: x[1]): a stable sort by distance
RECURSIVE InsertByDistance(_, _)
InsertByDistance(sorted, e) ==
    IF sorted = <<>> THEN <<e>>
    ELSE IF BigLess(e.distance_sq, Head(sorted).distance_sq)
    THEN <<e>> \o sorted
    ELSE <<Head(sorted)>> \o InsertByDistance(Tail(sorted), e)

RECURSIVE SortByDistance(_)
SortByDistance(seq) ==
    IF seq = <<>> THEN <<>>
    ELSE InsertByDistance(SortByDistance(SubSeq(seq, 1, Len(seq) - 1)),
                          seq[Len(seq)])

\* _find_dangerous_asteroids of the original and the delivery variant: the
\* loop from asteroid i on
RECURSIVE DangerousFrom(_, _, _, _)
DangerousFrom(ship, asteroids, variant, i) ==
    IF i > Len(asteroids) THEN <<>>
    ELSE LET asteroid == asteroids[i]
             rest == DangerousFrom(ship, asteroids, variant, i + 1)
         IN  IF BigLess(BigSq(REACTION_DISTANCE[variant] * UNIT),
                        get_distance_sq(ship, asteroid))
             THEN rest
             ELSE IF WillCollide(ship, asteroid, PREDICTION_TIME[variant])
             THEN <<[asteroid |-> i,
                     distance |-> get_distance(ship, asteroid),
                     distance_sq |-> get_distance_sq(ship, asteroid)]>> \o rest
             ELSE rest

\* _find_dangerous_asteroids: of the cautious variant through
\* predict_collision, which can raise; of the others by distance
_find_dangerous_asteroids(ship, asteroids, variant) ==
    IF variant = "cautious"
    THEN find_dangerous_asteroids(ship, asteroids,
                                  REACTION_DISTANCE[variant] * UNIT,
                                  PREDICTION_TIME[variant])
    ELSE [raised |-> FALSE,
          dangerous |-> SortByDistance(DangerousFrom(ship, asteroids, variant, 1))]

\* the escape heading of _evade_asteroids from one asteroid (original.py
\* lines 172-194): away from it when the relative velocity is below 0.01 on
\* both axes, else the perpendicular to the approach that points away more
EscapeAngle(ship, asteroid) ==
    LET rel_vel_x == asteroid.velocity_x - ship.velocity_x
        rel_vel_y == asteroid.velocity_y - ship.velocity_y
        approach_angle == Atan2Deg(rel_vel_y, rel_vel_x)
        perp1 == approach_angle + 90
        perp2 == approach_angle - 90
        asteroid_angle == Atan2Deg(asteroid.y - ship.y, asteroid.x - ship.x)
        diff1 == Abs(AngleDiff(perp1, asteroid_angle))
        diff2 == Abs(AngleDiff(perp2, asteroid_angle))
    IN  IF Abs(rel_vel_x) < UNIT \div 100 /\ Abs(rel_vel_y) < UNIT \div 100
        THEN Atan2Deg(ship.y - asteroid.y, ship.x - asteroid.x)
        ELSE (IF diff1 > diff2 THEN perp1 ELSE perp2) % 360

\* _evade_asteroids (original.py:164-210, delivery.py:192-238); tolerance is
\* 10 there and 5 in the single-threat part of the cautious variant
_evade_asteroids(ship, asteroids, dangerous_asteroids, tolerance) ==
    IF dangerous_asteroids = <<>> THEN <<0, 0>>
    ELSE LET asteroid == asteroids[dangerous_asteroids[1].asteroid]
             escape_angle_deg == EscapeAngle(ship, asteroid)
             angle_diff == AngleDiff(escape_angle_deg, ship.angle % 360)
         IN  <<1, RotationFor(angle_diff, tolerance)>>

\* distance - ship.size - asteroid.size < fraction/10 of span, the test
\* behind thrust_intensity > 1 - fraction/10; span in 1/1000 pixel
CloserThanFraction(ship, asteroid, span, fraction) ==
    BigLess(get_distance_sq(ship, asteroid),
            BigSq(ship.size + asteroid.size + (fraction * span) \div 10))

\* the heading away from an asteroid (original.py:217-221)
AwayAngle(ship, asteroid) ==
    (Atan2Deg(asteroid.y - ship.y, asteroid.x - ship.x) + 180) % 360

\* OriginalShipAI._avoid_asteroid; asteroid is an index, 0 for None
Original_avoid_asteroid(ship, asteroids, asteroid) ==
    IF asteroid = 0 THEN <<0, 0>>
    ELSE LET a == asteroids[asteroid]
             angle_diff == AngleDiff(AwayAngle(ship, a), ship.angle % 360)
             span == REACTION_DISTANCE["original"] * UNIT - ship.size - a.size
         IN  <<IF CloserThanFraction(ship, a, span, 7) THEN 1 ELSE 0,
               RotationFor(angle_diff, 15)>>

\* DeliveryFocusedAI._avoid_asteroid
Delivery_avoid_asteroid(ship, asteroids, asteroid) ==
    IF asteroid = 0 THEN <<0, 0>>
    ELSE LET a == asteroids[asteroid]
             span == REACTION_DISTANCE["delivery"] * UNIT - ship.size - a.size
         IN  <<IF CloserThanFraction(ship, a, span, 7) THEN 1 ELSE 0,
               get_steering_direction(ship.angle % 360, AwayAngle(ship, a))>>

\* CautiousShipAI._avoid_asteroid_enhanced
_avoid_asteroid_enhanced(ship, asteroids, asteroid) ==
    IF asteroid = 0 THEN <<0, 0>>
    ELSE LET a == asteroids[asteroid]
             angle_diff == AngleDiff(AwayAngle(ship, a), ship.angle % 360)
             span == (REACTION_DISTANCE["cautious"] * UNIT * 7) \div 10
         IN  <<IF CloserThanFraction(ship, a, span, 8) THEN 1 ELSE 0,
               RotationFor(angle_diff, 10)>>

\* OriginalShipAI._approach_zone
_approach_zone(ship, zone) ==
    LET angle_to_zone == Atan2Deg(zone.y - ship.y, zone.x - ship.x)
        ship_angle == ship.angle % 360
        angle_diff == AngleDiff(angle_to_zone, ship_angle)
        distance_sq == get_distance_sq(ship, zone)
        thrust_angle == (ship_angle + 180) % 360
        angle_to_thrust == AngleDiff(thrust_angle, angle_to_zone)
        thrust ==
            IF BigLess(distance_sq, BigSq(zone.size))
            THEN IF FasterThan(ship, (MAX_PICKUP_VELOCITY * UNIT * 8) \div 10)
                 THEN (IF Abs(angle_to_thrust) < 30 THEN 1 ELSE 0)
                 ELSE 0
            ELSE IF BigLess(distance_sq, BigSq(zone.size * 2))
                    /\ FasterThan(ship, MAX_PICKUP_VELOCITY * UNIT)
                 THEN 0
                 ELSE (IF Abs(angle_diff) < 45 THEN 1 ELSE 0)
    IN  <<thrust, RotationFor(angle_diff, 5)>>

\* OriginalShipAI._cruise; thrust_draw is random.random() < 0.1
_cruise(ship, ai, thrust_draw) ==
    LET angle_diff == AngleDiff(ai.current_target_angle, ship.angle % 360)
    IN  <<IF thrust_draw /\ SlowerThan(ship, 2 * UNIT) THEN 1 ELSE 0,
          RotationFor(angle_diff, 5)>>

\* sqrt(dx*dx + dy*dy) of two points on the plane, the screen not wrapped
PlaneDistance(dx, dy) == BigIsqrt(BigAdd(BigSq(dx), BigSq(dy)))

\* the square of the wrapped distance of the cautious and delivery variants,
\* min(abs(d), SCREEN - abs(d)) per axis, for points that may lie off screen
WrappedSq(x1, y1, x2, y2) ==
    LET dx == Min2(Abs(x1 - x2), W - Abs(x1 - x2))
        dy == Min2(Abs(y1 - y2), H - Abs(y1 - y2))
    IN  BigAdd(BigSq(dx), BigSq(dy))

\* 100 * n as a two-limb number, n >= 0
BigTimes100(n) == <<n \div 10000, (n % 10000) * 100>>

\* 1 / max(time, 1) of an entry, in 1/100000
Urgency(entry) ==
    IF entry.time_to_collision = Infinity THEN 0
    ELSE RDiv(100000 * TIME_UNIT,
              IF entry.time_to_collision < TIME_UNIT THEN TIME_UNIT
              ELSE entry.time_to_collision)

\* lines 273-285: the sum over dangerous_asteroids[:3] from entry k on of the
\* weighted unit vectors to the asteroids, and of the weights
RECURSIVE ThreatSum(_, _, _, _)
ThreatSum(ship, asteroids, dangerous_asteroids, k) ==
    IF k > Len(dangerous_asteroids) \/ k > 3
    THEN [avg_vx |-> 0, avg_vy |-> 0, total_weight |-> 0]
    ELSE LET asteroid == asteroids[dangerous_asteroids[k].asteroid]
             weight == Urgency(dangerous_asteroids[k])
             dx   == asteroid.x - ship.x
             dy   == asteroid.y - ship.y
             d    == PlaneDistance(dx, dy)
             dist == IF d < UNIT \div 10 THEN UNIT \div 10 ELSE d
             rest == ThreatSum(ship, asteroids, dangerous_asteroids, k + 1)
         IN  [avg_vx |-> rest.avg_vx + RDiv(dx * 1000, dist) * weight,
              avg_vy |-> rest.avg_vy + RDiv(dy * 1000, dist) * weight,
              total_weight |-> rest.total_weight + weight]

\* CautiousShipAI._evade_asteroids_enhanced; the division of the average by
\* total_weight > 0 leaves its direction as it is
_evade_asteroids_enhanced(ship, asteroids, dangerous_asteroids) ==
    LET sum == ThreatSum(ship, asteroids, dangerous_asteroids, 1)
        escape_angle_deg == Atan2Deg(-sum.avg_vy, -sum.avg_vx)
        angle_diff == AngleDiff(escape_angle_deg, ship.angle % 360)
    IN  IF Len(dangerous_asteroids) > 1 /\ sum.total_weight > 0
        THEN <<1, RotationFor(angle_diff, 10)>>
        ELSE _evade_asteroids(ship, asteroids, dangerous_asteroids, 5)

\* CautiousShipAI._approach_zone_safely
_approach_zone_safely(ship, zone) ==
    LET angle_to_zone == Atan2Deg(zone.y - ship.y, zone.x - ship.x)
        ship_angle == ship.angle % 360
        angle_diff == AngleDiff(angle_to_zone, ship_angle)
        distance_sq == get_distance_sq(ship, zone)
        speed_sq == SpeedSq(ship.velocity_x, ship.velocity_y)
        movement_angle == Atan2Deg(ship.velocity_y, ship.velocity_x)
        braking_angle == (movement_angle + 180) % 360
        brake_angle_diff == AngleDiff(braking_angle, ship_angle)
    IN  IF BigLess(distance_sq, BigSq(zone.size))
        THEN IF FasterThan(ship, (MAX_PICKUP_VELOCITY * UNIT * 7) \div 10)
             THEN <<IF Abs(brake_angle_diff) < 60 THEN 1 ELSE 0,
                    get_steering_direction(ship_angle, braking_angle)>>
             ELSE <<0, 0>>
        ELSE IF BigLess(distance_sq, BigTimes100(speed_sq))
                /\ FasterThan(ship, (MAX_PICKUP_VELOCITY * UNIT * 15) \div 10)
             THEN <<0, get_steering_direction(ship_angle, angle_to_zone)>>
             ELSE <<IF Abs(angle_diff) < 30 THEN 1 ELSE 0,
                    get_steering_direction(ship_angle, angle_to_zone)>>

\* lines 172-202 of _zone_path_has_threats: asteroid i is on the path of
\* length distance along the unit vector (ndx, ndy)/1000 and too close to it
OnPath(ship, asteroid, ndx, ndy, distance) ==
    LET ax   == asteroid.x - ship.x
        ay   == asteroid.y - ship.y
        proj == RDiv(ax * ndx, 1000) + RDiv(ay * ndy, 1000)
        cx   == ship.x + RDiv(ndx * proj, 1000) - asteroid.x
        cy   == ship.y + RDiv(ndy * proj, 1000) - asteroid.y
    IN  /\ proj >= 0
        /\ proj <= distance
        /\ BigLess(BigAdd(BigSq(cx), BigSq(cy)),
                   BigSq(asteroid.size + ship.size + 20 * UNIT))

\* CautiousShipAI._zone_path_has_threats
_zone_path_has_threats(ship, zone, asteroids) ==
    LET dx == zone.x - ship.x
        dy == zone.y - ship.y
        distance == PlaneDistance(dx, dy)
    IN  /\ distance >= UNIT
        /\ \E i \in 1..Len(asteroids) :
              OnPath(ship, asteroids[i], RDiv(dx * 1000, distance),
                     RDiv(dy * 1000, distance), distance)

\* the smallest wrapped distance, squared, from (x, y) to asteroid i and on;
\* best is the smallest before i
RECURSIVE MinDistanceSq(_, _, _, _, _)
MinDistanceSq(x, y, asteroids, i, best) ==
    IF i > Len(asteroids) THEN best
    ELSE LET d == WrappedSq(x, y, asteroids[i].x, asteroids[i].y)
         IN  MinDistanceSq(x, y, asteroids, i + 1,
                           IF BigLess(d, best) THEN d ELSE best)

\* CautiousShipAI._find_safe_spot; spot is the best of the 20 sampled points
_find_safe_spot(ai, asteroids, spot) ==
    IF BigLess(BigSq(DANGER_DISTANCE["cautious"] * UNIT),
               MinDistanceSq(spot.x, spot.y, asteroids, 1, BigSq(W + H)))
    THEN [ai EXCEPT !.safe_spot = [x |-> spot.x, y |-> spot.y]]
    ELSE ai

\* CautiousShipAI._move_to_safe_spot
_move_to_safe_spot(ship, ai) ==
    IF ai.safe_spot = None
    THEN [thrust |-> 0, rotation |-> 0, ai |-> ai]
    ELSE LET target_angle ==
                 get_angle_to_target(ship, ai.safe_spot.x, ai.safe_spot.y)
             ship_angle == ship.angle % 360
             reached == BigLess(WrappedSq(ship.x, ship.y,
                                          ai.safe_spot.x, ai.safe_spot.y),
                                BigSq(50 * UNIT))
         IN  [thrust |-> IF Abs(AngleDiff(target_angle, ship_angle)) < 45
                         THEN 1 ELSE 0,
              rotation |-> get_steering_direction(ship_angle, target_angle),
              ai |-> IF reached
                     THEN [ai EXCEPT !.safe_spot = None]
                     ELSE ai]

\* the look-ahead test of _cruise_safely (cautious.py:437-458,
\* delivery.py:399-419): an asteroid near the point look_ahead ahead
ObstacleAhead(ship, asteroids, look_ahead) ==
    LET ahead_x == ship.x + RDiv(Cos(ship.angle) * look_ahead, 1000)
        ahead_y == ship.y + RDiv(Sin(ship.angle) * look_ahead, 1000)
    IN  \E i \in 1..Len(asteroids) :
           BigLess(WrappedSq(ahead_x, ahead_y, asteroids[i].x, asteroids[i].y),
                   BigSq(asteroids[i].size + ship.size + 20 * UNIT))

\* _cruise_safely: look_ahead in 1/1000 pixel, speed_limit the speed under
\* which the thrust draw counts, rnd the values drawn by random
_cruise_safely(ship, ai, asteroids, look_ahead, speed_limit, rnd) ==
    LET turned == IF ObstacleAhead(ship, asteroids, look_ahead)
                  THEN [ai EXCEPT !.current_target_angle = rnd.new_angle,
                                  !.course_change_timer = COURSE_CHANGE_DELAY]
                  ELSE ai
    IN  [thrust |-> IF rnd.thrust /\ SlowerThan(ship, speed_limit)
                    THEN 1 ELSE 0,
         rotation |-> get_steering_direction(ship.angle % 360,
                                             turned.current_target_angle),
         ai |-> turned]

\* the braking heading, opposite to the movement (delivery.py:292-293)
BrakingAngle(ship) ==
    (Atan2Deg(ship.velocity_y, ship.velocity_x) + 180) % 360

\* lines 321-350 of _precision_approach: active braking and direct approach
PrecisionPhases(ship, ai, zone) ==
    LET angle_to_zone == get_angle_to_target(ship, zone.x, zone.y)
        ship_angle == ship.angle % 360
        rotation == get_steering_direction(ship_angle, angle_to_zone)
        braking_angle == BrakingAngle(ship)
        brake_angle_diff == Abs(AngleDiff(braking_angle, ship_angle))
    IN  IF ai.approach_phase = "brake"
        THEN IF FasterThan(ship, MAX_PICKUP_VELOCITY * UNIT)
             THEN [thrust |-> IF brake_angle_diff < 90 THEN 1 ELSE 0,
                   rotation |-> get_steering_direction(ship_angle, braking_angle),
                   ai |-> ai]
             ELSE [thrust |-> 0, rotation |-> rotation,
                   ai |-> [ai EXCEPT !.approach_phase = "direct"]]
        ELSE [thrust |-> IF /\ Abs(AngleDiff(angle_to_zone, ship_angle)) < 20
                            /\ SlowerThan(ship, 3 * UNIT)
                            /\ BigLess(BigSq(zone.size * 2),
                                       get_distance_sq(ship, zone))
                         THEN 1 ELSE 0,
              rotation |-> rotation, ai |-> ai]

\* DeliveryFocusedAI._precision_approach; distance < braking_distance * 1.5
\* is compared as (2 * distance)^2 < (3 * braking_distance)^2
_precision_approach(ship, ai, zone) ==
    LET angle_to_zone == get_angle_to_target(ship, zone.x, zone.y)
        ship_angle == ship.angle % 360
        rotation == get_steering_direction(ship_angle, angle_to_zone)
        distance_sq == get_distance_sq(ship, zone)
        braking_angle == BrakingAngle(ship)
        brake_angle_diff == Abs(AngleDiff(braking_angle, ship_angle))
        braking_distance ==
            estimate_braking_distance(ship, (MAX_PICKUP_VELOCITY * UNIT * 8) \div 10)
        four_distance_sq == BigAdd(BigAdd(distance_sq, distance_sq),
                                   BigAdd(distance_sq, distance_sq))
    IN  IF BigLess(distance_sq, BigSq((zone.size * 8) \div 10))
        THEN LET final == [ai EXCEPT !.approach_phase = "final"]
             IN  IF FasterThan(ship, (MAX_PICKUP_VELOCITY * UNIT * 8) \div 10)
                 THEN IF brake_angle_diff < 30
                      THEN [thrust |-> 1, rotation |-> 0, ai |-> final]
                      ELSE [thrust |-> 0,
                            rotation |-> get_steering_direction(ship_angle,
                                                                braking_angle),
                            ai |-> final]
                 ELSE [thrust |-> 0, rotation |-> 0, ai |-> final]
        ELSE IF ~ai.braking_started
                /\ BigLess(four_distance_sq, BigSq(3 * braking_distance.value))
        THEN [thrust |-> 0, rotation |-> rotation,
              ai |-> [ai EXCEPT !.approach_phase = "brake",
                                !.braking_started = TRUE]]
        ELSE PrecisionPhases(ship, ai, zone)

\* the zone an AI keeps in target_zone: the fields of it that never change
ZoneRef(zone) ==
    [x |-> zone.x, y |-> zone.y, size |-> zone.size, zone_type |-> zone.zone_type]

\* min(suitable_zones, key=get_distance) from zone i on: the index of the
\* first closest zone of the type, 0 when there is none; best the one before i
RECURSIVE ClosestZoneFrom(_, _, _, _, _)
ClosestZoneFrom(ship, delivery_zones, zone_type, i, best) ==
    IF i > Len(delivery_zones) THEN best
    ELSE ClosestZoneFrom(ship, delivery_zones, zone_type, i + 1,
            IF /\ delivery_zones[i].zone_type = zone_type
               /\ \/ best = 0
                  \/ BigLess(get_distance_sq(ship, delivery_zones[i]),
                             get_distance_sq(ship, delivery_zones[best]))
            THEN i ELSE best)

\* find_closest_zone_by_type (utils/decision.py:27-41)
find_closest_zone_by_type(ship, delivery_zones, zone_type) ==
    ClosestZoneFrom(ship, delivery_zones, zone_type, 1, 0)

\* "dropoff" if self.ship.has_cargo else "pickup"
TargetType(ship) == IF ship.has_cargo THEN "dropoff" ELSE "pickup"

\* DeliveryFocusedAI._cruise_delivery_focused
_cruise_delivery_focused(ship, ai, delivery_zones, rnd) ==
    LET closest_zone ==
            find_closest_zone_by_type(ship, delivery_zones, TargetType(ship))
        zone == delivery_zones[closest_zone]
        angle_to_zone == get_angle_to_target(ship, zone.x, zone.y)
        ship_angle == ship.angle % 360
    IN  IF closest_zone # 0
        THEN [thrust |-> IF /\ Abs(AngleDiff(angle_to_zone, ship_angle)) < 30
                            /\ SlowerThan(ship, 3 * UNIT)
                         THEN 1 ELSE 0,
              rotation |-> get_steering_direction(ship_angle, angle_to_zone),
              ai |-> ai]
        ELSE [thrust |-> IF rnd.thrust /\ SlowerThan(ship, 2 * UNIT)
                         THEN 1 ELSE 0,
              rotation |-> RotationFor(AngleDiff(ai.current_target_angle,
                                                 ship_angle), 5),
              ai |-> ai]

\* if self.course_change_timer > 0: self.course_change_timer -= 1
TickTimer(ai) ==
    IF ai.course_change_timer > 0
    THEN [ai EXCEPT !.course_change_timer = @ - 1]
    ELSE ai

\* the asteroid is there and closer than the variant's REACTION_DISTANCE
WithinReaction(ship, asteroids, closest_asteroid, variant) ==
    /\ closest_asteroid # 0
    /\ BigLess(get_distance_sq(ship, asteroids[closest_asteroid]),
               BigSq(REACTION_DISTANCE[variant] * UNIT))

\* the last branch of "Update mode based on threats": back to cruise when the
\* timer has run out and no zone is being approached, with a new course when
\* rnd.change_course (random.random() < 0.01)
BackToCruise(ai, rnd) ==
    IF ai.course_change_timer = 0 /\ ai.current_mode \notin {"pickup", "dropoff"}
    THEN LET cruising == [ai EXCEPT !.current_mode = "cruise",
                                    !.target_zone = None]
         IN  IF rnd.change_course
             THEN [cruising EXCEPT !.current_target_angle = rnd.new_angle,
                                   !.course_change_timer = COURSE_CHANGE_DELAY]
             ELSE cruising
    ELSE ai

\* a decision that returned, as a result of make_decision
Decision(pair, ai) ==
    [raised |-> FALSE, thrust |-> pair[1], rotation |-> pair[2], ai |-> ai]

\* the decision of OriginalShipAI.make_decision once the timer has ticked and
\* the closest asteroid, the dangerous asteroids and the closest suitable
\* zone (0 for none) are known
Original_decide(ai, ship, asteroids, delivery_zones, rnd, closest_asteroid, dangerous_asteroids, closest_zone) ==
    LET near == BigLess(get_distance_sq(ship, delivery_zones[closest_zone]),
                        BigSq(REACTION_DISTANCE["original"] * 3 * UNIT))
        updated ==
            IF dangerous_asteroids # <<>>
            THEN [ai EXCEPT !.current_mode = "evade", !.target_zone = None]
            ELSE IF WithinReaction(ship, asteroids, closest_asteroid, "original")
            THEN [ai EXCEPT !.current_mode = "avoid", !.target_zone = None]
            ELSE BackToCruise(ai, rnd)
    IN  IF dangerous_asteroids = <<>> /\ closest_zone # 0 /\ near
        THEN Decision(_approach_zone(ship, delivery_zones[closest_zone]),
                      [ai EXCEPT !.current_mode = TargetType(ship),
                                 !.target_zone = ZoneRef(delivery_zones[closest_zone])])
        ELSE IF updated.current_mode = "evade"
        THEN Decision(_evade_asteroids(ship, asteroids, dangerous_asteroids, 10),
                      updated)
        ELSE IF updated.current_mode = "avoid"
        THEN Decision(Original_avoid_asteroid(ship, asteroids, closest_asteroid),
                      updated)
        ELSE IF updated.current_mode \in {"pickup", "dropoff"}
                /\ updated.target_zone # None
        THEN Decision(_approach_zone(ship, updated.target_zone), updated)
        ELSE Decision(_cruise(ship, updated, rnd.thrust), updated)

\* OriginalShipAI.make_decision
Original_make_decision(ai0, ship, asteroids, delivery_zones, rnd) ==
    Original_decide(TickTimer(ai0), ship, asteroids, delivery_zones, rnd,
        _find_closest_asteroid(ship, asteroids),
        _find_dangerous_asteroids(ship, asteroids, "original").dangerous,
        find_closest_zone_by_type(ship, delivery_zones, TargetType(ship)))

\* a CautiousMode that lets a ship on its way to a zone carry on under threat
CautiousMode_pursuing(ai, ship, asteroids, dangerous_asteroids, closest_asteroid, rnd) ==
    IF dangerous_asteroids # <<>> /\ ai.current_mode \notin {"pickup", "dropoff"}
    THEN [ai EXCEPT !.current_mode = "evade", !.target_zone = None]
    ELSE IF WithinReaction(ship, asteroids, closest_asteroid, "cautious")
    THEN [ai EXCEPT !.current_mode = "avoid", !.target_zone = None]
    ELSE ai

\* lines 85-104 of CautiousShipAI.make_decision: the mode after the threats
CautiousMode(ai, ship, asteroids, dangerous_asteroids, closest_asteroid, rnd) ==
    IF dangerous_asteroids # <<>>
    THEN LET evading == [ai EXCEPT !.current_mode = "evade",
                                   !.target_zone = None]
         IN  IF Len(dangerous_asteroids) > 1 /\ rnd.seek_spot
             THEN _find_safe_spot(evading, asteroids, rnd.spot)
             ELSE evading
    ELSE IF WithinReaction(ship, asteroids, closest_asteroid, "cautious")
    THEN [ai EXCEPT !.current_mode = "avoid", !.target_zone = None]
    ELSE IF ai.course_change_timer = 0
            /\ ai.current_mode \notin {"pickup", "dropoff"}
    THEN BackToCruise([ai EXCEPT !.safe_spot = None], rnd)
    ELSE ai

\* the decision of CautiousShipAI.make_decision once the timer has ticked and
\* the asteroids and the closest suitable zone are known; an exception of
\* _find_dangerous_asteroids leaves the call after the timer has ticked
Cautious_decide(ai, ship, asteroids, delivery_zones, rnd, found, closest_asteroid, closest_zone) ==
    LET dangerous_asteroids == found.dangerous
        zone == delivery_zones[closest_zone]
        near == BigLess(get_distance_sq(ship, zone),
                        BigSq(REACTION_DISTANCE["cautious"] * 2 * UNIT))
        updated == CautiousMode(ai, ship, asteroids, dangerous_asteroids,
                                closest_asteroid, rnd)
        look_ahead ==
            10 * Isqrt(SpeedSq(ship.velocity_x, ship.velocity_y))
    IN  IF found.raised
        THEN [raised |-> TRUE, thrust |-> 0, rotation |-> 0, ai |-> ai]
        ELSE IF /\ Len(dangerous_asteroids) <= 1
                /\ closest_zone # 0
                /\ near
                /\ ~_zone_path_has_threats(ship, zone, asteroids)
        THEN Decision(_approach_zone_safely(ship, zone),
                      [ai EXCEPT !.current_mode = TargetType(ship),
                                 !.target_zone = ZoneRef(zone)])
        ELSE IF updated.current_mode = "evade"
        THEN IF updated.safe_spot # None
             THEN [raised |-> FALSE] @@ _move_to_safe_spot(ship, updated)
             ELSE Decision(_evade_asteroids_enhanced(ship, asteroids,
                                                     dangerous_asteroids),
                           updated)
        ELSE IF updated.current_mode = "avoid"
        THEN Decision(_avoid_asteroid_enhanced(ship, asteroids, closest_asteroid),
                      updated)
        ELSE IF updated.current_mode \in {"pickup", "dropoff"}
                /\ updated.target_zone # None
        THEN Decision(_approach_zone_safely(ship, updated.target_zone), updated)
        ELSE [raised |-> FALSE]
             @@ _cruise_safely(ship, updated, asteroids, look_ahead,
                               (3 * UNIT) \div 2, rnd)

\* CautiousShipAI.make_decision
Cautious_make_decision(ai0, ship, asteroids, delivery_zones, rnd) ==
    Cautious_decide(TickTimer(ai0), ship, asteroids, delivery_zones, rnd,
        _find_dangerous_asteroids(ship, asteroids, "cautious"),
        _find_closest_asteroid(ship, asteroids),
        find_closest_zone_by_type(ship, delivery_zones, TargetType(ship)))

\* lines 87-108 of DeliveryFocusedAI.make_decision: the mode after the threats
DeliveryMode(ai, ship, asteroids, dangerous_asteroids, closest_asteroid, rnd) ==
    IF dangerous_asteroids # <<>>
    THEN [ai EXCEPT !.current_mode = "evade", !.target_zone = None,
                    !.approach_phase = "direct", !.braking_started = FALSE]
    ELSE IF WithinReaction(ship, asteroids, closest_asteroid, "delivery")
    THEN [ai EXCEPT !.current_mode = "avoid", !.target_zone = None,
                    !.approach_phase = "direct", !.braking_started = FALSE]
    ELSE IF ai.course_change_timer = 0
            /\ ai.current_mode \notin {"pickup", "dropoff"}
    THEN BackToCruise([ai EXCEPT !.approach_phase = "direct",
                                 !.braking_started = FALSE], rnd)
    ELSE ai

\* the decision of DeliveryFocusedAI.make_decision once the timer has ticked
\* and the asteroids and the closest suitable zone are known
Delivery_decide(ai, ship, asteroids, delivery_zones, rnd, closest_asteroid, dangerous_asteroids, closest_zone) ==
    LET zone == delivery_zones[closest_zone]
        updated == DeliveryMode(ai, ship, asteroids, dangerous_asteroids,
                                closest_asteroid, rnd)
        free == delivery_zones # <<>> /\ dangerous_asteroids = <<>>
    IN  IF free /\ closest_zone = 0 /\ ship.has_cargo
        THEN [raised |-> FALSE]
             @@ _cruise_safely(ship, [ai EXCEPT !.current_mode = "wait_for_dropoff"],
                               asteroids, 100 * UNIT, UNIT, rnd)
        ELSE IF free /\ closest_zone # 0
        THEN [raised |-> FALSE]
             @@ _precision_approach(ship,
                    [ai EXCEPT !.current_mode = TargetType(ship),
                               !.target_zone = ZoneRef(zone)], zone)
        ELSE IF updated.current_mode = "evade"
        THEN Decision(_evade_asteroids(ship, asteroids, dangerous_asteroids, 10),
                      updated)
        ELSE IF updated.current_mode = "avoid"
        THEN Decision(Delivery_avoid_asteroid(ship, asteroids, closest_asteroid),
                      updated)
        ELSE IF updated.current_mode \in {"pickup", "dropoff"}
                /\ updated.target_zone # None
        THEN [raised |-> FALSE]
             @@ _precision_approach(ship, updated, updated.target_zone)
        ELSE [raised |-> FALSE]
             @@ _cruise_delivery_focused(ship, updated, delivery_zones, rnd)

\* DeliveryFocusedAI.make_decision
Delivery_make_decision(ai0, ship, asteroids, delivery_zones, rnd) ==
    Delivery_decide(TickTimer(ai0), ship, asteroids, delivery_zones, rnd,
        _find_closest_asteroid(ship, asteroids),
        _find_dangerous_asteroids(ship, asteroids, "delivery").dangerous,
        find_closest_zone_by_type(ship, delivery_zones, TargetType(ship)))

\* BaseShipAI.make_decision, as the variant of the instance implements it;
\* rnd holds the values random draws during the call
make_decision(ai, ship, asteroids, delivery_zones, rnd) ==
    IF ai.variant = "original"
    THEN Original_make_decision(ai, ship, asteroids, delivery_zones, rnd)
    ELSE IF ai.variant = "cautious"
    THEN Cautious_make_decision(ai, ship, asteroids, delivery_zones, rnd)
    ELSE Delivery_make_decision(ai, ship, asteroids, delivery_zones, rnd)

(***************************************************************************)
(* State.                                                                  *)
(***************************************************************************)
VARIABLES
    ships,            \* main's list of Ship
    asteroids,        \* main's list of Asteroid
    delivery_zones,   \* main's list of DeliveryZone
    zone_spawn_timer, \* main's countdown to the next pair of zones
    game_over,        \* main's flag
    pc,               \* the call of the frame main is about to make
    tick,             \* frames played since the initial state
    target_angle,     \* the heading a steering caller wants
    budget,           \* control changes the environment may still make
    call,             \* the last call made: its arguments and what it returned
    log,              \* per ship, its successful zone interactions so far
    ship_ais          \* the AI instances whose make_decision is called

vars == <<ships, asteroids, delivery_zones, zone_spawn_timer, game_over,
          pc, tick, target_angle, budget, call, log, ship_ais>>

NoCall == [op |-> "none"]

(***************************************************************************)
(* Bounds of the model.                                                    *)
(***************************************************************************)
\* frames of a round of the game loop that are explored
MaxTicks == 242
\* asteroids initialize_game creates (10 in the program)
NumInitAsteroids == 1
\* control changes of a flight of one ship
MaxControlChanges == 1
\* Ship.update calls of a flight of one ship
MaxUpdates == 30

\* the frames of a round in which a ship's controls change and in which the
\* loop adds an asteroid, as explored
InputFrames == {0}

\* the values of random.randint(3*FPS, 6*FPS) explored
SpawnTimers == {3 * FPS}

Controls == {0, 1} \X {-1, 0, 1}

\* draws of one piece of break_apart <<ox, oy, pvx, pvy>>: both offsets at an
\* end of [-size/2, size/2], both perturbations at an end of [-0.5, 0.5]
DrawLow == <<-2, -2, -500, -500>>
DrawHigh == <<2, 2, 500, 500>>

\* the draws of one break_apart call in the game loop, as explored:
\* random.randint(2, 3) pieces
DrawSeqs == {<<DrawLow, DrawHigh>>, <<DrawHigh, DrawLow, DrawHigh>>}

(***************************************************************************)
(* The game loop (src/spacewar/spacewar.py).                               *)
(***************************************************************************)
\* initialize_game: ship_positions
ship_positions ==
    <<<<(SCREEN_WIDTH \div 4) * UNIT, (SCREEN_HEIGHT \div 4) * UNIT>>,
      <<((SCREEN_WIDTH * 3) \div 4) * UNIT, (SCREEN_HEIGHT \div 4) * UNIT>>,
      <<(SCREEN_WIDTH \div 2) * UNIT, ((SCREEN_HEIGHT * 3) \div 4) * UNIT>>>>

\* the headings random.uniform(0, 360) gives the three ships, as explored
HeadingChoices == {<<0, 180, 90>>}

\* initialize_game: the ships of a round with num_players players
InitialShips(num_players, headings) ==
    [i \in 1..3 |-> NewShip(ship_positions[i][1], ship_positions[i][2],
                            headings[i], i > num_players)]

\* the asteroids generate_random_asteroids creates, as explored: one heading
\* for the first ship, one that reaches the right edge exactly and crosses it
AsteroidChoices ==
    <<NewAsteroid(400 * UNIT, 475 * UNIT, "large", 0, -500),
      NewAsteroid(1598 * UNIT, 700 * UNIT, "medium", 2000, 0)>>

\* the points generate_random_point_away_from_entities is given to choose a
\* zone's place from, as explored (pixels)
ZonePoints == {<<410, 300>>, <<1000, 600>>}

\* generate_random_point_away_from_entities: the points of candidates it can
\* return.  A point min_distance away from every entity is returned as soon
\* as it is drawn; after 100 draws that were all too close (lines 351-352)
\* any point is returned, which can happen whenever there is an entity.
generate_random_point_away_from_entities(entities, min_distance, candidates) ==
    LET at(p) == [x |-> p[1] * UNIT, y |-> p[2] * UNIT, size |-> 0]
        too_close(p) ==
            \E i \in 1..Len(entities) :
                BigLess(get_distance_sq(at(p), entities[i]),
                        BigSq(min_distance * UNIT))
    IN  {p \in candidates : ~too_close(p)}
        \cup (IF Len(entities) > 0 THEN candidates ELSE {})

\* an update_ship_controls that moves each ship as soon as it has its controls
update_ship_controls_moving(ss, controls) ==
    [i \in 1..Len(ss) |->
        IF ss[i].destroyed THEN ss[i]
        ELSE Ship_update(set_controls(ss[i], controls[i][1], controls[i][2]))]

\* update_ship_controls: controls[i] is the pair the player's keys or
\* make_decision gives ship i
update_ship_controls(ss, controls) ==
    [i \in 1..Len(ss) |->
        IF ss[i].destroyed THEN ss[i]
        ELSE set_controls(ss[i], controls[i][1], controls[i][2])]

\* where a body is
Place(e) == <<e.x, e.y>>

Places(bodies) == [k \in 1..Len(bodies) |-> Place(bodies[k])]

\* lines 182-199: where the ships are when the controls of ship i are chosen,
\* the ships before it in the list having been through the loop
Observed(i, ss, controls) ==
    [k \in 1..Len(ss) |->
        IF k < i THEN Place(update_ship_controls(ss, controls)[k])
        ELSE Place(ss[k])]

\* an update_entities that does not look at the destroyed flag
update_entities_ships_all(ss) == [i \in 1..Len(ss) |-> Ship_update(ss[i])]

\* update_entities
update_entities_ships(ss) ==
    [i \in 1..Len(ss) |-> IF ss[i].destroyed THEN ss[i] ELSE Ship_update(ss[i])]

update_entities_asteroids(as) ==
    [j \in 1..Len(as) |-> Asteroid_update(as[j])]

\* the first asteroid of the list the ship collides with, 0 when none
FirstColliding(ship, as) ==
    LET hits == {j \in 1..Len(as) : is_colliding(ship, as[j])}
    IN  IF hits = {} THEN 0 ELSE CHOOSE j \in hits : \A k \in hits : j <= k

RemoveAt(seq, j) ==
    [k \in 1..(Len(seq) - 1) |-> IF k < j THEN seq[k] ELSE seq[k + 1]]

\* check_collisions, from ship i on; draws[i] are the draws of the
\* break_apart call ship i causes
RECURSIVE CollisionsFrom(_, _, _, _, _)
CollisionsFrom(i, ss, as, new_asteroids, draws) ==
    IF i > Len(ss) THEN [ships |-> ss, asteroids |-> as \o new_asteroids]
    ELSE IF ss[i].destroyed
    THEN CollisionsFrom(i + 1, ss, as, new_asteroids, draws)
    ELSE LET j == FirstColliding(ss[i], as)
         IN  IF j = 0 THEN CollisionsFrom(i + 1, ss, as, new_asteroids, draws)
             ELSE CollisionsFrom(i + 1,
                                 [ss EXCEPT ![i].destroyed = TRUE],
                                 RemoveAt(as, j),
                                 new_asteroids \o break_apart(as[j], draws[i]),
                                 draws)

check_collisions(ss, as, draws) == CollisionsFrom(1, ss, as, <<>>, draws)

\* the interactions with one zone when a destroyed ship is not passed over
RECURSIVE InteractFrom_wrecks(_, _, _, _, _)
InteractFrom_wrecks(i, zone, ss, lg, now) ==
    IF i > Len(ss) THEN [ships |-> ss, log |-> lg, zone |-> zone]
    ELSE LET r == check_ship_interaction(zone, ss[i])
         IN  InteractFrom_wrecks(i + 1, r.zone, [ss EXCEPT ![i] = r.ship],
                                 IF r.ok
                                 THEN [lg EXCEPT ![i] =
                                         Append(@, [tick |-> now,
                                                    zone_type |-> zone.zone_type,
                                                    active_time |-> zone.active_time,
                                                    had_cargo |-> ss[i].has_cargo])]
                                 ELSE lg,
                                 now)

\* lines 244-247: the ships' interactions with one zone, from ship i on;
\* the log keeps of every success the tick, what the zone was and had left
\* and whether the ship had cargo
RECURSIVE InteractFrom(_, _, _, _, _)
InteractFrom(i, zone, ss, lg, now) ==
    IF i > Len(ss) THEN [ships |-> ss, log |-> lg, zone |-> zone]
    ELSE IF ss[i].destroyed THEN InteractFrom(i + 1, zone, ss, lg, now)
    ELSE LET r == check_ship_interaction(zone, ss[i])
         IN  InteractFrom(i + 1, r.zone, [ss EXCEPT ![i] = r.ship],
                          IF r.ok
                          THEN [lg EXCEPT ![i] =
                                  Append(@, [tick |-> now,
                                             zone_type |-> zone.zone_type,
                                             active_time |-> zone.active_time,
                                             had_cargo |-> ss[i].has_cargo])]
                          ELSE lg,
                          now)

\* update_delivery_zones, from zone k of the copy of the list on; a zone
\* that stays in the list is there as the interactions leave it
RECURSIVE ZonesFrom(_, _, _, _, _, _)
ZonesFrom(k, copy, kept, ss, lg, now) ==
    IF k > Len(copy) THEN [delivery_zones |-> kept, ships |-> ss, log |-> lg]
    ELSE LET zone == Zone_update(copy[k])
             r    == InteractFrom(1, zone, ss, lg, now)
         IN  ZonesFrom(k + 1, copy,
                       IF is_expired(zone) THEN kept ELSE Append(kept, r.zone),
                       r.ships, r.log, now)

update_delivery_zones(zones, ss, lg, now) == ZonesFrom(1, zones, <<>>, ss, lg, now)

\* check_win_conditions without lines 292-297
check_win_conditions_credits(ss) == \E i \in 1..Len(ss) : ss[i].credits >= 5

\* check_win_conditions: game_over
check_win_conditions(ss) ==
    LET credit_goal == 5
        surviving_ships == {i \in 1..Len(ss) : ~ss[i].destroyed}
    IN  (\E i \in 1..Len(ss) : ss[i].credits >= credit_goal)
        \/ Cardinality(surviving_ships) <= 1
        \/ (\A i \in 1..Len(ss) : ss[i].destroyed)


\* check_win_conditions: winning_ship as the index of the ship, 0 for None.
\* The first ship with the credit goal, replaced by the surviving ship when
\* exactly one ship is left
winning_ship(ss) ==
    LET credit_goal == 5
        reached == {i \in 1..Len(ss) : ss[i].credits >= credit_goal}
        surviving_ships == {i \in 1..Len(ss) : ~ss[i].destroyed}
    IN  IF Cardinality(surviving_ships) = 1
        THEN CHOOSE i \in surviving_ships : TRUE
        ELSE IF reached = {} THEN 0
        ELSE CHOOSE i \in reached : \A k \in reached : i <= k

\* main, line 407: the menu's default number of players
selected_option == 1

EmptyLog == [i \in 1..3 |-> <<>>]

\* the state of a round after initialize_game and main's reset of the round
Init ==
    /\ \E headings \in HeadingChoices :
          ships = InitialShips(selected_option, headings)
    /\ \E pick \in [1..NumInitAsteroids -> 1..Len(AsteroidChoices)] :
          asteroids = [j \in 1..NumInitAsteroids |-> AsteroidChoices[pick[j]]]
    /\ delivery_zones = <<>>
    /\ zone_spawn_timer \in SpawnTimers
    /\ game_over = FALSE
    /\ pc = "controls"
    /\ tick = 0
    /\ target_angle = 0
    /\ budget = 0
    /\ call = NoCall
    /\ log = EmptyLog
    /\ ship_ais = <<>>

\* a loop that goes on updating after the round is over
round_running_always(over) == TRUE

\* main, line 476: if not game_over
round_running(over) == ~over

\* main, line 483: update_ship_controls.  The decisions of the players and
\* of make_decision are left open: outside the input frames every ship is
\* given the controls it has, in an input frame one ship is given any pair.
\* call records where each decision found the ships and the asteroids.
UpdateShipControls ==
    /\ pc = "controls"
    /\ round_running(game_over)
    /\ tick < MaxTicks
    /\ \E i \in 1..Len(ships), c \in Controls :
          LET controls == [k \in 1..Len(ships) |->
                              IF k = i THEN c
                              ELSE <<ships[k].thrust, ships[k].rotation>>]
          IN  /\ (tick \notin InputFrames) => c = <<ships[i].thrust, ships[i].rotation>>
              /\ ships' = update_ship_controls(ships, controls)
              /\ call' = [op |-> "update_ship_controls",
                          observed |-> [k \in 1..Len(ships) |->
                                           Observed(k, ships, controls)],
                          asteroids |-> Places(asteroids)]
    /\ pc' = "entities"
    /\ UNCHANGED <<asteroids, delivery_zones, zone_spawn_timer, game_over,
                   tick, target_angle, budget, log, ship_ais>>

\* main, line 484: update_entities
UpdateEntities ==
    /\ pc = "entities"
    /\ ships' = update_entities_ships(ships)
    /\ asteroids' = update_entities_asteroids(asteroids)
    /\ pc' = "collisions"
    /\ call' = NoCall
    /\ UNCHANGED <<delivery_zones, zone_spawn_timer, game_over,
                   tick, target_angle, budget, log, ship_ais>>

\* main, line 487: check_collisions
CheckCollisions ==
    /\ pc = "collisions"
    /\ LET hit == {i \in 1..Len(ships) :
                     ~ships[i].destroyed /\ FirstColliding(ships[i], asteroids) # 0}
       IN  \E draws \in [hit -> DrawSeqs] :
              LET r == check_collisions(ships, asteroids, draws)
              IN  /\ ships' = r.ships
                  /\ asteroids' = r.asteroids
    /\ pc' = "respawn"
    /\ UNCHANGED <<delivery_zones, zone_spawn_timer, game_over,
                   tick, target_angle, budget, call, log, ship_ais>>

\* main, lines 490-491: an asteroid is added when random.random() < 0.01
AddAsteroid ==
    /\ pc = "respawn"
    /\ \/ UNCHANGED asteroids
       \/ /\ Len(asteroids) < MAX_ASTEROIDS
          /\ tick \in InputFrames
          /\ \E k \in 1..Len(AsteroidChoices) :
                asteroids' = Append(asteroids, AsteroidChoices[k])
    /\ pc' = "zones"
    /\ UNCHANGED <<ships, delivery_zones, zone_spawn_timer, game_over,
                   tick, target_angle, budget, call, log, ship_ais>>

\* main, line 494: update_delivery_zones
UpdateDeliveryZones ==
    /\ pc = "zones"
    /\ LET r == update_delivery_zones(delivery_zones, ships, log, tick)
       IN  /\ delivery_zones' = r.delivery_zones
           /\ ships' = r.ships
           /\ log' = r.log
    /\ pc' = "spawn_zones"
    /\ UNCHANGED <<asteroids, zone_spawn_timer, game_over,
                   tick, target_angle, budget, call, ship_ais>>

\* a spawn_delivery_zones that resets the timer only when it spawns zones
SpawnDeliveryZones_no_reset ==
    /\ pc = "spawn_zones"
    /\ IF zone_spawn_timer - 1 <= 0 /\ Len(delivery_zones) = 0
       THEN /\ zone_spawn_timer' = ZONE_SPAWN_INTERVAL
            /\ LET all_entities == ships \o asteroids \o delivery_zones
               IN  \E p \in generate_random_point_away_from_entities(
                               all_entities, 100, ZonePoints) :
                     LET pickup_zone == NewZone(p[1] * UNIT, p[2] * UNIT, "pickup")
                     IN  \E d \in generate_random_point_away_from_entities(
                                     Append(all_entities, pickup_zone),
                                     300, ZonePoints) :
                           delivery_zones' =
                               <<pickup_zone,
                                 NewZone(d[1] * UNIT, d[2] * UNIT, "dropoff")>>
       ELSE /\ zone_spawn_timer' = zone_spawn_timer - 1
            /\ UNCHANGED delivery_zones
    /\ pc' = "win"
    /\ UNCHANGED <<ships, asteroids, game_over, tick, target_angle, budget,
                   call, log, ship_ais>>

\* main, lines 495-497: spawn_delivery_zones
SpawnDeliveryZones ==
    /\ pc = "spawn_zones"
    /\ IF zone_spawn_timer - 1 <= 0
       THEN /\ zone_spawn_timer' = ZONE_SPAWN_INTERVAL
            /\ IF Len(delivery_zones) = 0
               THEN LET all_entities == ships \o asteroids \o delivery_zones
                    IN  \E p \in generate_random_point_away_from_entities(
                                    all_entities, 100, ZonePoints) :
                          LET pickup_zone == NewZone(p[1] * UNIT, p[2] * UNIT, "pickup")
                          IN  \E d \in generate_random_point_away_from_entities(
                                          Append(all_entities, pickup_zone),
                                          300, ZonePoints) :
                                delivery_zones' =
                                    <<pickup_zone,
                                      NewZone(d[1] * UNIT, d[2] * UNIT, "dropoff")>>
               ELSE UNCHANGED delivery_zones
       ELSE /\ zone_spawn_timer' = zone_spawn_timer - 1
            /\ UNCHANGED delivery_zones
    /\ pc' = "win"
    /\ UNCHANGED <<ships, asteroids, game_over, tick, target_angle, budget,
                   call, log, ship_ais>>

\* main, line 500: check_win_conditions, and the end of the frame
CheckWinConditions ==
    /\ pc = "win"
    /\ game_over' = check_win_conditions(ships)
    /\ pc' = "controls"
    /\ tick' = tick + 1
    /\ UNCHANGED <<ships, asteroids, delivery_zones, zone_spawn_timer,
                   target_angle, budget, call, log, ship_ais>>

Next ==
    \/ UpdateShipControls
    \/ UpdateEntities
    \/ CheckCollisions
    \/ AddAsteroid
    \/ UpdateDeliveryZones
    \/ SpawnDeliveryZones
    \/ CheckWinConditions

Spec == Init /\ [][Next]_vars


(***************************************************************************)
(* The game loop late in a round: from the start of a frame in which the   *)
(* zones spawned ZONE_ACTIVE_TIME frames before are about to expire, or in  *)
(* which zone_spawn_timer is about to run out while they are active.        *)
(***************************************************************************)
\* active_time of the two zones (spawned in the same frame) and
\* zone_spawn_timer at the start of the frame: the timer was reset to
\* ZONE_SPAWN_INTERVAL when they spawned and once since
LateTimes ==
    {<<1, 1>>, <<2, 2>>, <<ZONE_SPAWN_INTERVAL + 2, 2>>}

\* the zones of the round: the pickup zone next to the first ship
LateZones(active_time) ==
    <<[NewZone(410 * UNIT, 300 * UNIT, "pickup") EXCEPT !.active_time = active_time],
      [NewZone(1000 * UNIT, 600 * UNIT, "dropoff") EXCEPT !.active_time = active_time]>>

\* the ships by then: the third was destroyed while under thrust with cargo
\* and lies where the dropoff zone was spawned later; the second is under
\* way, or is at rest in the dropoff zone with cargo, one credit short of
\* the goal
LateShips ==
    LET ss == InitialShips(selected_option, <<0, 180, 90>>)
        wreck == [ss[3] EXCEPT !.x = 1000 * UNIT, !.y = 610 * UNIT,
                               !.destroyed = TRUE, !.thrust = 1,
                               !.rotation = 1, !.velocity_x = 300,
                               !.has_cargo = TRUE, !.credits = 4]
    IN  { [ss EXCEPT
             ![2] = [@ EXCEPT !.velocity_x = -UNIT, !.credits = 1],
             ![3] = wreck],
          [ss EXCEPT
             ![2] = [@ EXCEPT !.x = 1000 * UNIT, !.y = 600 * UNIT,
                              !.has_cargo = TRUE, !.credits = 4],
             ![3] = wreck] }

\* the asteroid of the late round, about to reach the first ship
LateAsteroids == <<NewAsteroid(400 * UNIT, 365 * UNIT, "large", 0, -500)>>

InitLate ==
    /\ ships \in LateShips
    /\ asteroids = LateAsteroids
    /\ \E t \in LateTimes :
          /\ delivery_zones = LateZones(t[1])
          /\ zone_spawn_timer = t[2]
    /\ game_over = FALSE
    /\ pc = "controls"
    /\ tick = 0
    /\ target_angle = 0
    /\ budget = 0
    /\ call = NoCall
    /\ log = EmptyLog
    /\ ship_ais = <<>>

SpecLate == InitLate /\ [][Next]_vars

\* a round in which the second ship has flown next to the first and the
\* third is destroyed already: both ships are inside the pickup zone of
\* LateZones, which has most of its time left, and the asteroid of
\* LateAsteroids reaches the two ships in the same frame
CrowdShips ==
    LET ss == InitialShips(selected_option, <<0, 180, 90>>)
    IN  [ss EXCEPT ![2] = [@ EXCEPT !.x = 405 * UNIT, !.y = 300 * UNIT],
                   ![3] = [@ EXCEPT !.destroyed = TRUE]]

InitCrowd ==
    /\ ships = CrowdShips
    /\ asteroids = LateAsteroids
    /\ delivery_zones = LateZones(ZONE_SPAWN_INTERVAL + 2)
    /\ zone_spawn_timer = 2
    /\ game_over = FALSE
    /\ pc = "controls"
    /\ tick = 0
    /\ target_angle = 0
    /\ budget = 0
    /\ call = NoCall
    /\ log = EmptyLog
    /\ ship_ais = <<>>

SpecCrowd == InitCrowd /\ [][Next]_vars

(***************************************************************************)
(* The game loop late in a round, with the frames after the round is over. *)
(***************************************************************************)
\* main, lines 452-500 in a frame with game_over set: the block of lines
\* 476-500 is skipped and the frame only draws; pc = "over" from the first
\* such frame on.  A restart and the return to the menu
\* (handle_gameplay_input) begin another round and are not followed
GameOverFrame ==
    /\ pc \in {"controls", "over"}
    /\ ~round_running(game_over)
    /\ pc' = "over"
    /\ UNCHANGED <<ships, asteroids, delivery_zones, zone_spawn_timer,
                   game_over, tick, target_angle, budget, call, log, ship_ais>>

NextOver == Next \/ GameOverFrame

SpecOver == InitLate /\ [][NextOver]_vars

(***************************************************************************)
(* A quiet round from its start to the second pair of zones: no player     *)
(* touches the controls and no asteroid is about, so that the frames only  *)
(* age, remove and spawn zones.                                            *)
(***************************************************************************)
\* frames of a quiet round that are followed
MaxQuietTicks == 1600

\* main, line 431: the values of random.randint(3*FPS, 6*FPS) explored, the
\* ends of the range
QuietTimers == {3 * FPS, 6 * FPS}

\* main, lines 425-444: the round reset and initialize_game, without asteroids
InitQuiet ==
    /\ ships = InitialShips(selected_option, <<0, 180, 90>>)
    /\ asteroids = <<>>
    /\ delivery_zones = <<>>
    /\ zone_spawn_timer \in QuietTimers
    /\ game_over = FALSE
    /\ pc = "controls"
    /\ tick = 0
    /\ target_angle = 0
    /\ budget = 0
    /\ call = NoCall
    /\ log = EmptyLog
    /\ ship_ais = <<>>

\* main, lines 476-491 in a frame of a quiet round: update_ship_controls
\* gives every ship the controls it has, update_entities updates the ships,
\* check_collisions finds no asteroid and none is added
QuietFrame ==
    /\ pc = "controls"
    /\ round_running(game_over)
    /\ tick < MaxQuietTicks
    /\ asteroids = <<>>
    /\ LET controls == [k \in 1..Len(ships) |->
                           <<ships[k].thrust, ships[k].rotation>>]
       IN  ships' = update_entities_ships(update_ship_controls(ships, controls))
    /\ pc' = "zones"
    /\ UNCHANGED <<asteroids, delivery_zones, zone_spawn_timer, game_over,
                   tick, target_angle, budget, call, log, ship_ais>>

NextQuiet ==
    \/ QuietFrame
    \/ UpdateDeliveryZones
    \/ SpawnDeliveryZones
    \/ CheckWinConditions

SpecQuiet == InitQuiet /\ [][NextQuiet]_vars

(***************************************************************************)
(* The flight of one ship: set_controls and Ship.update called by any      *)
(* caller, from a ship as Ship.__init__ leaves it (SpecShip) or from any   *)
(* ship state a caller can set up (SpecUpdate).                            *)
(***************************************************************************)
\* the headings of a new ship that are explored
FlightHeadings == {0, 45, 90, 357}

\* the velocities of a ship handed to Ship.update that are explored:
\* at rest, at and above MAX_VELOCITY along an axis and off the axes
UpdateVelocities ==
    {<<0, 0>>, <<5000, 0>>, <<6000, 0>>, <<3600, 4800>>, <<-4000, -3000>>,
     <<0, -6000>>}

FlightRest ==
    /\ asteroids = <<>>
    /\ delivery_zones = <<>>
    /\ zone_spawn_timer = 0
    /\ game_over = FALSE
    /\ pc = "fly"
    /\ tick = 0
    /\ target_angle = 0
    /\ budget = MaxControlChanges
    /\ call = NoCall
    /\ log = EmptyLog
    /\ ship_ais = <<>>

InitShip ==
    /\ \E i \in 1..3, h \in FlightHeadings :
          ships = <<NewShip(ship_positions[i][1], ship_positions[i][2], h, TRUE)>>
    /\ FlightRest

InitUpdate ==
    /\ \E h \in FlightHeadings, v \in UpdateVelocities :
          ships = <<[NewShip(ship_positions[2][1], ship_positions[2][2], h, TRUE)
                       EXCEPT !.velocity_x = v[1], !.velocity_y = v[2]]>>
    /\ FlightRest

\* a caller's ship.set_controls(thrust, rotation)
SetControls ==
    /\ pc = "fly"
    /\ budget > 0
    /\ \E c \in Controls :
          /\ c # <<ships[1].thrust, ships[1].rotation>>
          /\ ships' = <<set_controls(ships[1], c[1], c[2])>>
    /\ budget' = budget - 1
    /\ UNCHANGED <<asteroids, delivery_zones, zone_spawn_timer, game_over,
                   pc, tick, target_angle, call, log, ship_ais>>

\* a caller's ship.update()
ShipUpdate ==
    /\ pc = "fly"
    /\ tick < MaxUpdates
    /\ ships' = <<Ship_update(ships[1])>>
    /\ call' = [op |-> "Ship_update", before |-> ships[1]]
    /\ tick' = tick + 1
    /\ UNCHANGED <<asteroids, delivery_zones, zone_spawn_timer, game_over,
                   pc, target_angle, budget, log, ship_ais>>

NextFlight == SetControls \/ ShipUpdate

SpecShip == InitShip /\ [][NextFlight]_vars

SpecUpdate == InitUpdate /\ [][NextFlight]_vars

(***************************************************************************)
(* Steering: a caller that each frame gives the ship the rotation          *)
(* get_steering_direction returns for its target heading, no thrust, and   *)
(* then updates the ship.                                                  *)
(***************************************************************************)
\* the target headings explored
TargetAngles == {0, 90, 180, 359}

\* frames of steering that are followed
MaxSteerUpdates == 62

InitSteer ==
    /\ \E h \in 0..359 :
          ships = <<NewShip(ship_positions[1][1], ship_positions[1][2], h, TRUE)>>
    /\ target_angle \in TargetAngles
    /\ asteroids = <<>>
    /\ delivery_zones = <<>>
    /\ zone_spawn_timer = 0
    /\ game_over = FALSE
    /\ pc = "steer"
    /\ tick = 0
    /\ budget = 0
    /\ call = NoCall
    /\ log = EmptyLog
    /\ ship_ais = <<>>

\* the caller's decision: get_steering_direction, then set_controls
Steer ==
    /\ pc = "steer"
    /\ tick < MaxSteerUpdates
    /\ LET rotation == get_steering_direction(ships[1].angle, target_angle)
       IN  /\ ships' = <<set_controls(ships[1], 0, rotation)>>
           /\ call' = [op |-> "get_steering_direction",
                       current_angle |-> ships[1].angle,
                       target_angle |-> target_angle, ret |-> rotation]
    /\ pc' = "turn"
    /\ UNCHANGED <<asteroids, delivery_zones, zone_spawn_timer, game_over,
                   tick, target_angle, budget, log, ship_ais>>

\* the caller's ship.update()
Turn ==
    /\ pc = "turn"
    /\ ships' = <<Ship_update(ships[1])>>
    /\ call' = [op |-> "Ship_update", before |-> ships[1]]
    /\ pc' = "steer"
    /\ tick' = tick + 1
    /\ UNCHANGED <<asteroids, delivery_zones, zone_spawn_timer, game_over,
                   target_angle, budget, log, ship_ais>>

NextSteer == Steer \/ Turn

SpecSteer == InitSteer /\ [][NextSteer]_vars


(***************************************************************************)
(* One call of DeliveryZone.check_ship_interaction on any zone and ship.   *)
(***************************************************************************)
\* the zones explored: mid-screen and in a corner (pixels)
ZoneInputs == {<<800, 600>>, <<10, 10>>} \X {"pickup", "dropoff"}

\* the ship positions explored (1/1000 pixel): on the first zone's centre,
\* just inside and exactly on the distance ship.size + zone.size from it,
\* and across both screen edges from the second zone
ZoneShipPoints ==
    {<<800000, 600000>>, <<879999, 600000>>, <<880000, 600000>>,
     <<1590000, 1190000>>}

\* the ship velocities explored: at rest, at, just above and well above
\* MAX_PICKUP_VELOCITY
ZoneShipVelocities ==
    {<<0, 0>>, <<1000, 0>>, <<600, 800>>, <<1000, 1>>, <<3000, 0>>}

InitZone ==
    /\ \E z \in ZoneInputs :
          delivery_zones = <<NewZone(z[1][1] * UNIT, z[1][2] * UNIT, z[2])>>
    /\ \E p \in ZoneShipPoints, v \in ZoneShipVelocities, cargo \in BOOLEAN,
          cooldown \in {0, 1, INTERACTION_COOLDOWN}, credits \in {0, 4} :
          ships = <<[NewShip(p[1], p[2], 0, TRUE)
                       EXCEPT !.velocity_x = v[1], !.velocity_y = v[2],
                              !.has_cargo = cargo, !.credits = credits,
                              !.interaction_cooldown = cooldown]>>
    /\ asteroids = <<>>
    /\ zone_spawn_timer = 0
    /\ game_over = FALSE
    /\ pc = "call"
    /\ tick = 0
    /\ target_angle = 0
    /\ budget = 0
    /\ call = NoCall
    /\ log = EmptyLog
    /\ ship_ais = <<>>

\* zone.check_ship_interaction(ship)
CheckShipInteraction ==
    /\ pc = "call"
    /\ LET r == check_ship_interaction(delivery_zones[1], ships[1])
       IN  /\ ships' = <<r.ship>>
           /\ delivery_zones' = <<r.zone>>
           /\ call' = [op |-> "check_ship_interaction",
                       zone |-> delivery_zones[1], before |-> ships[1],
                       ret |-> r.ok]
    /\ pc' = "done"
    /\ UNCHANGED <<asteroids, zone_spawn_timer, game_over,
                   tick, target_angle, budget, log, ship_ais>>

NextZone == CheckShipInteraction

SpecZone == InitZone /\ [][NextZone]_vars

(***************************************************************************)
(* One call of Asteroid.break_apart on any asteroid.                       *)
(***************************************************************************)
\* the draws of one piece explored
FragDraws == {DrawLow, DrawHigh, <<0, 0, 0, 0>>, <<2, -2, 500, -500>>}

\* the asteroids explored: mid-screen and near the edges (pixels)
FragPoints == {<<500, 500>>, <<5, 600>>, <<1595, 1195>>}

FragVelocities == {<<1000, 0>>, <<-1200, 1600>>}

InitFrag ==
    /\ \E p \in FragPoints, v \in FragVelocities, c \in SizeCategories :
          asteroids = <<NewAsteroid(p[1] * UNIT, p[2] * UNIT, c, v[1], v[2])>>
    /\ ships = <<>>
    /\ delivery_zones = <<>>
    /\ zone_spawn_timer = 0
    /\ game_over = FALSE
    /\ pc = "call"
    /\ tick = 0
    /\ target_angle = 0
    /\ budget = 0
    /\ call = NoCall
    /\ log = EmptyLog
    /\ ship_ais = <<>>

\* asteroid.break_apart()
BreakApart ==
    /\ pc = "call"
    /\ \E n \in 2..3 :
          \E draws \in [1..n -> FragDraws] :
             call' = [op |-> "break_apart", before |-> asteroids[1],
                      ret |-> break_apart(asteroids[1], draws)]
    /\ pc' = "done"
    /\ UNCHANGED <<ships, asteroids, delivery_zones, zone_spawn_timer,
                   game_over, tick, target_angle, budget, log, ship_ais>>

NextFrag == BreakApart

SpecFrag == InitFrag /\ [][NextFrag]_vars

(***************************************************************************)
(* Calls of predict_collision, find_dangerous_asteroids and                *)
(* estimate_braking_distance on any ship and asteroids.                    *)
(***************************************************************************)
\* asteroids handed to one call
MaxScan == 2

\* the ships explored: position (pixels) and velocity
PredictShips ==
    {<<100, 100>>, <<1590, 100>>}
    \X {<<0, 0>>, <<1000, 0>>, <<2000, 0>>, <<-2000, 0>>, <<300, 400>>}

\* the asteroids explored: position (pixels), velocity and category
PredictAsteroids ==
    ({<<140, 100>>, <<160, 100>>, <<200, 100>>, <<10, 100>>}
     \X {<<0, 0>>, <<-1000, 0>>, <<-2000, 0>>, <<5, 0>>})
    \X {"large", "small"}

\* the asteroids explored behind the first of a list
ScanAsteroidsBehind ==
    {<<<<<<140, 100>>, <<-1000, 0>>>>, "large">>,
     <<<<<<160, 100>>, <<0, 0>>>>, "large">>,
     <<<<<<10, 100>>, <<-2000, 0>>>>, "small">>,
     <<<<<<200, 100>>, <<5, 0>>>>, "small">>}

\* the values of max_distance explored: the default, and REACTION_DISTANCE
\* of the cautious variant
MaxDistances == {150, 200}

\* the horizons explored: PREDICTION_TIME of the variants
PredictionTimes == {60, 90}

\* the desired speeds explored: a stop, the default, 0.8 and 1.0 times
\* MAX_PICKUP_VELOCITY
DesiredSpeeds == {0, 5, 800, 1000}

InitPredict ==
    /\ \E sp \in PredictShips :
          ships = <<[NewShip(sp[1][1] * UNIT, sp[1][2] * UNIT, 0, TRUE)
                       EXCEPT !.velocity_x = sp[2][1], !.velocity_y = sp[2][2]]>>
    /\ \E n \in 1..MaxScan :
          \E as \in [1..n -> PredictAsteroids] :
             /\ \A j \in 2..n : as[j] \in ScanAsteroidsBehind
             /\ asteroids = [j \in 1..n |->
                            NewAsteroid(as[j][1][1][1] * UNIT, as[j][1][1][2] * UNIT,
                                        as[j][2], as[j][1][2][1], as[j][1][2][2])]
    /\ delivery_zones = <<>>
    /\ zone_spawn_timer = 0
    /\ game_over = FALSE
    /\ pc = "call"
    /\ tick = 0
    /\ target_angle = 0
    /\ budget = 0
    /\ call = NoCall
    /\ log = EmptyLog
    /\ ship_ais = <<>>

\* predict_collision(ship, asteroid, prediction_time)
PredictCollision ==
    /\ pc = "call"
    /\ \E j \in 1..Len(asteroids), t \in PredictionTimes :
          call' = [op |-> "predict_collision", ship |-> ships[1],
                   asteroid |-> asteroids[j], prediction_time |-> t,
                   ret |-> predict_collision(ships[1], asteroids[j], t)]
    /\ pc' = "done"
    /\ UNCHANGED <<ships, asteroids, delivery_zones, zone_spawn_timer,
                   game_over, tick, target_angle, budget, log, ship_ais>>

\* find_dangerous_asteroids(ship, asteroids, max_distance, prediction_time)
FindDangerousAsteroids ==
    /\ pc = "call"
    /\ \E t \in PredictionTimes, max_distance \in MaxDistances :
          call' = [op |-> "find_dangerous_asteroids", ship |-> ships[1],
                   asteroids |-> asteroids,
                   max_distance |-> max_distance * UNIT,
                   prediction_time |-> t,
                   ret |-> find_dangerous_asteroids(ships[1], asteroids,
                                                    max_distance * UNIT, t)]
    /\ pc' = "done"
    /\ UNCHANGED <<ships, asteroids, delivery_zones, zone_spawn_timer,
                   game_over, tick, target_angle, budget, log, ship_ais>>

\* estimate_braking_distance(ship, desired_speed)
EstimateBrakingDistance ==
    /\ pc = "call"
    /\ \E d \in DesiredSpeeds :
          call' = [op |-> "estimate_braking_distance", ship |-> ships[1],
                   desired_speed |-> d,
                   ret |-> estimate_braking_distance(ships[1], d)]
    /\ pc' = "done"
    /\ UNCHANGED <<ships, asteroids, delivery_zones, zone_spawn_timer,
                   game_over, tick, target_angle, budget, log, ship_ais>>

NextPredict ==
    \/ PredictCollision
    \/ FindDangerousAsteroids
    \/ EstimateBrakingDistance

SpecPredict == InitPredict /\ [][NextPredict]_vars


(***************************************************************************)
(* One call of Entity.get_distance each way on any two bodies.             *)
(***************************************************************************)
\* the coordinates explored (pixels): on and next to the edges, half a
\* screen apart, and where a piece of a broken asteroid can lie off screen
DistanceXs == {-15, 0, 5, 400, 800, 801, 1595, 1600}

DistanceYs == {-15, 0, 600, 601, 1200}

InitDistance ==
    /\ \E x \in DistanceXs, y \in DistanceYs :
          ships = <<NewShip(x * UNIT, y * UNIT, 0, TRUE)>>
    /\ \E x \in DistanceXs, y \in DistanceYs, c \in {"large", "small"} :
          asteroids = <<NewAsteroid(x * UNIT, y * UNIT, c, 0, 0)>>
    /\ delivery_zones = <<>>
    /\ zone_spawn_timer = 0
    /\ game_over = FALSE
    /\ pc = "call"
    /\ tick = 0
    /\ target_angle = 0
    /\ budget = 0
    /\ call = NoCall
    /\ log = EmptyLog
    /\ ship_ais = <<>>

\* a.get_distance(b) and b.get_distance(a)
GetDistance ==
    /\ pc = "call"
    /\ call' = [op |-> "get_distance", a |-> ships[1], b |-> asteroids[1],
                ret |-> get_distance(ships[1], asteroids[1]),
                ret_sq |-> get_distance_sq(ships[1], asteroids[1]),
                swapped |-> get_distance(asteroids[1], ships[1]),
                swapped_sq |-> get_distance_sq(asteroids[1], ships[1])]
    /\ pc' = "done"
    /\ UNCHANGED <<ships, asteroids, delivery_zones, zone_spawn_timer,
                   game_over, tick, target_angle, budget, log, ship_ais>>

NextDistance == GetDistance

SpecDistance == InitDistance /\ [][NextDistance]_vars

(***************************************************************************)
(* The AI instances on their own: one instance of each variant is created  *)
(* and its make_decision is called on one world after the other, as        *)
(* update_ship_controls (src/spacewar/spacewar.py:180-211) calls it frame   *)
(* after frame.  random draws are choices of the environment.              *)
(***************************************************************************)
\* calls of make_decision on one instance
MaxDecisions == 2

\* the point the worlds are seen from
AIShipPoint == [x |-> 400 * UNIT, y |-> 300 * UNIT]

\* a ship under way
AIShip(angle, vx, vy, has_cargo) ==
    [NewShip(AIShipPoint.x, AIShipPoint.y, angle, TRUE)
        EXCEPT !.velocity_x = vx, !.velocity_y = vy, !.has_cargo = has_cargo]

AIWorld(ship, as, zones) ==
    [ship |-> ship, asteroids |-> as, delivery_zones |-> zones]

\* the zones next to the ship, the dropoff zone around it
NearZones ==
    <<NewZone(500 * UNIT, 300 * UNIT, "pickup"),
      NewZone(430 * UNIT, 300 * UNIT, "dropoff")>>

\* the worlds a decision is taken in: nothing around; an asteroid at rest
\* inside every REACTION_DISTANCE; one and two asteroids on collision course;
\* a large asteroid that touches the ship at rest and drifts into it; zones
\* next to the ship; a loaded ship with only a pickup zone and an obstacle
\* ahead; a loaded ship racing to a dropoff zone; a loaded ship inside the
\* dropoff zone; a pickup zone behind an asteroid; zones next to the ship and
\* one asteroid on collision course from the side; a loaded ship that drifts
\* slowly inside the dropoff zone, heading across
AIWorlds ==
    { AIWorld(AIShip(0, 0, 0, FALSE), <<>>, <<>>),
      AIWorld(AIShip(0, 0, 0, FALSE),
              <<NewAsteroid(500 * UNIT, 300 * UNIT, "small", 0, 0)>>, <<>>),
      AIWorld(AIShip(180, 0, 0, FALSE),
              <<NewAsteroid(500 * UNIT, 300 * UNIT, "medium", -UNIT, 0)>>,
              NearZones),
      AIWorld(AIShip(0, 0, 0, TRUE),
              <<NewAsteroid(500 * UNIT, 300 * UNIT, "medium", -UNIT, 0),
                NewAsteroid(400 * UNIT, 380 * UNIT, "medium", 0, -UNIT)>>,
              <<>>),
      AIWorld(AIShip(0, 0, 0, FALSE),
              <<NewAsteroid(460 * UNIT, 300 * UNIT, "large", -UNIT, 0)>>, <<>>),
      AIWorld(AIShip(90, 0, 0, FALSE), <<>>, NearZones),
      AIWorld(AIShip(0, 900, 0, TRUE),
              <<NewAsteroid(500 * UNIT, 300 * UNIT, "small", 0, 0)>>,
              <<NewZone(900 * UNIT, 700 * UNIT, "pickup")>>),
      AIWorld(AIShip(0, 3 * UNIT, 0, TRUE), <<>>,
              <<NewZone(100 * UNIT, 900 * UNIT, "pickup"),
                NewZone(900 * UNIT, 300 * UNIT, "dropoff")>>),
      AIWorld(AIShip(0, 900, 0, TRUE), <<>>, NearZones),
      AIWorld(AIShip(0, 0, 0, FALSE),
              <<NewAsteroid(560 * UNIT, 300 * UNIT, "small", 0, 0)>>,
              <<NewZone(700 * UNIT, 300 * UNIT, "pickup"),
                NewZone(100 * UNIT, 900 * UNIT, "dropoff")>>),
      AIWorld(AIShip(0, 0, 0, FALSE),
              <<NewAsteroid(400 * UNIT, 400 * UNIT, "medium", 0, -UNIT)>>,
              NearZones),
      AIWorld(AIShip(90, 700, 0, TRUE), <<>>, NearZones) }

\* what random returns during one call: random.random() < p for the thrust
\* of the cruise, for the change of course and for the search of a safe
\* spot, random.uniform(0, 360), and the best of the sampled safe spots
AIDraws ==
    [thrust : BOOLEAN, change_course : BOOLEAN, new_angle : {270},
     seek_spot : BOOLEAN,
     spot : {[x |-> 1000 * UNIT, y |-> 900 * UNIT],
             [x |-> 450 * UNIT, y |-> 300 * UNIT]}]

InitAI ==
    /\ \E w \in AIWorlds :
          /\ ships = <<w.ship>>
          /\ asteroids = w.asteroids
          /\ delivery_zones = w.delivery_zones
    /\ \E variant \in Variants : ship_ais = <<NewAI(variant, 90)>>
    /\ zone_spawn_timer = 0
    /\ game_over = FALSE
    /\ pc = "decide"
    /\ tick = 0
    /\ target_angle = 0
    /\ budget = 0
    /\ call = NoCall
    /\ log = EmptyLog

\* update_ship_controls for the AI ship (src/spacewar/spacewar.py:193-199):
\* thrust, rotation = ship_ais[0].make_decision(asteroids, other_ships,
\* delivery_zones), then ship.set_controls(thrust, rotation); an exception
\* ends the run before the controls are set
MakeDecision ==
    /\ pc = "decide"
    /\ tick < MaxDecisions
    /\ \E rnd \in AIDraws :
          \E d \in {make_decision(ship_ais[1], ships[1], asteroids,
                                  delivery_zones, rnd)} :
              /\ call' = [op |-> "make_decision", before |-> ship_ais[1],
                          ship |-> ships[1], asteroids |-> asteroids,
                          delivery_zones |-> delivery_zones,
                          raised |-> d.raised, thrust |-> d.thrust,
                          rotation |-> d.rotation]
              /\ ship_ais' = <<d.ai>>
              /\ ships' = IF d.raised THEN ships
                          ELSE <<set_controls(ships[1], d.thrust, d.rotation)>>
              /\ pc' = IF d.raised THEN "raised" ELSE "world"
    /\ tick' = tick + 1
    /\ UNCHANGED <<asteroids, delivery_zones, zone_spawn_timer,
                   game_over, target_angle, budget, log>>

\* the frame between two decisions: the world moves on
SetWorld ==
    /\ pc = "world"
    /\ tick < MaxDecisions
    /\ \E w \in AIWorlds :
          /\ ships' = <<w.ship>>
          /\ asteroids' = w.asteroids
          /\ delivery_zones' = w.delivery_zones
    /\ pc' = "decide"
    /\ UNCHANGED <<zone_spawn_timer, game_over, tick, target_angle, budget,
                   call, log, ship_ais>>

NextAI == MakeDecision \/ SetWorld

SpecAI == InitAI /\ [][NextAI]_vars

(***************************************************************************)
(* A delivery-focused ship alone with a pickup and a dropoff zone that      *)
(* stay: frame after frame update_ship_controls calls make_decision and    *)
(* set_controls, update_entities calls Ship.update, and                    *)
(* update_delivery_zones calls check_ship_interaction of every zone.  No   *)
(* asteroid is there, so nothing is drawn from random and the flight is    *)
(* determined by where it starts.                                          *)
(***************************************************************************)
\* deliveries after which a flight is followed no further
MaxDeliveries == 2

\* the zones of the flight
DockZones ==
    <<NewZone(800 * UNIT, 300 * UNIT, "pickup"),
      NewZone(300 * UNIT, 600 * UNIT, "dropoff")>>

\* where the ship starts: at rest 100 and 180 pixels from the pickup zone,
\* facing it; at rest 400 pixels away, facing away; 200 pixels away at
\* MAX_VELOCITY towards the zone
DockStarts ==
    { [NewShip(700 * UNIT, 300 * UNIT, 0, TRUE) EXCEPT !.velocity_x = 0],
      [NewShip(620 * UNIT, 300 * UNIT, 0, TRUE) EXCEPT !.velocity_x = 0],
      [NewShip(400 * UNIT, 300 * UNIT, 180, TRUE) EXCEPT !.velocity_x = 0],
      [NewShip(600 * UNIT, 300 * UNIT, 0, TRUE)
          EXCEPT !.velocity_x = MAX_VELOCITY * UNIT] }

\* with a zone to approach and no asteroid make_decision draws nothing from
\* random: the values handed to it are never read
DockDraws == CHOOSE rnd \in AIDraws : TRUE

InitDock ==
    /\ \E ship \in DockStarts : ships = <<ship>>
    /\ asteroids = <<>>
    /\ delivery_zones = DockZones
    /\ ship_ais = <<NewAI("delivery", 90)>>
    /\ zone_spawn_timer = 0
    /\ game_over = FALSE
    /\ pc = "decide"
    /\ tick = 0
    /\ target_angle = 0
    /\ budget = 0
    /\ call = NoCall
    /\ log = EmptyLog

\* distance < zone.size * 0.8 (delivery.py:283)
InFinalRadius(ship, zone) ==
    BigLess(get_distance_sq(ship, zone), BigSq((zone.size * 8) \div 10))

\* the test of delivery.py:308-313 on a ship outside the final radius:
\* distance < estimate_braking_distance(ship, MAX_PICKUP_VELOCITY * 0.8) * 1.5
BrakingDue(ship, zone) ==
    LET distance_sq == get_distance_sq(ship, zone)
        braking_distance ==
            estimate_braking_distance(ship, (MAX_PICKUP_VELOCITY * UNIT * 8) \div 10)
    IN  /\ ~InFinalRadius(ship, zone)
        /\ BigLess(BigAdd(BigAdd(distance_sq, distance_sq),
                          BigAdd(distance_sq, distance_sq)),
                   BigSq(3 * braking_distance.value))

\* update_ship_controls (src/spacewar/spacewar.py:193-199) for the ship.
\* call also keeps what the approach has seen so far: the type of the zone
\* approached and whether braking is or was due since that zone became the
\* target
DockDecide ==
    /\ pc = "decide"
    /\ ships[1].credits < MaxDeliveries
    /\ \E d \in {make_decision(ship_ais[1], ships[1], asteroids,
                                delivery_zones, DockDraws)} :
              LET target_type == TargetType(ships[1])
                  zone == delivery_zones[find_closest_zone_by_type(
                              ships[1], delivery_zones, target_type)]
                  due == BrakingDue(ships[1], zone)
                  due_before == /\ call.op = "make_decision"
                                /\ call.target_type = target_type
                                /\ call.due_seen
              IN  /\ call' = [op |-> "make_decision", before |-> ship_ais[1],
                              ship |-> ships[1], asteroids |-> asteroids,
                              delivery_zones |-> delivery_zones,
                              raised |-> d.raised, thrust |-> d.thrust,
                              rotation |-> d.rotation,
                              target_type |-> target_type,
                              first_due |-> due /\ ~due_before,
                              due_seen |-> due \/ due_before]
                  /\ ship_ais' = <<d.ai>>
                  /\ ships' = IF d.raised THEN ships
                              ELSE <<set_controls(ships[1], d.thrust, d.rotation)>>
                  /\ pc' = IF d.raised THEN "raised" ELSE "update"
    /\ UNCHANGED <<asteroids, delivery_zones, zone_spawn_timer, game_over,
                   tick, target_angle, budget, log>>

\* update_entities (src/spacewar/spacewar.py:201-211): Ship.update
DockUpdate ==
    /\ pc = "update"
    /\ ships' = update_entities_ships(ships)
    /\ pc' = "zones"
    /\ UNCHANGED <<asteroids, delivery_zones, zone_spawn_timer, game_over,
                   tick, target_angle, budget, call, log, ship_ais>>

\* the interactions of update_delivery_zones (lines 244-247) with the zones,
\* which stay as they are
RECURSIVE DockInteract(_, _, _)
DockInteract(k, zones, ss) ==
    IF k > Len(zones) THEN ss
    ELSE DockInteract(k + 1, zones, InteractFrom(1, zones[k], ss, log, tick).ships)

DockZonesStep ==
    /\ pc = "zones"
    /\ ships' = DockInteract(1, delivery_zones, ships)
    /\ pc' = "decide"
    /\ UNCHANGED <<asteroids, delivery_zones, zone_spawn_timer, game_over,
                   tick, target_angle, budget, call, log, ship_ais>>

NextDock == DockDecide \/ DockUpdate \/ DockZonesStep

SpecDock == InitDock /\ [][NextDock]_vars

\* a step of NextDock can be taken
Running ==
    \/ pc \in {"update", "zones"}
    \/ pc = "decide" /\ ships[1].credits < MaxDeliveries

\* what a step of NextDock does to pc: every step of NextDock is one of
\* these, and Running is when NextDock is enabled
FrameStep ==
    /\ Running
    /\ pc' \in {"decide", "update", "zones", "raised"}
    /\ pc' # pc

\* the game loop (main, lines 476-500) runs the steps of every frame one
\* after the other for as long as the program runs: a step that can be
\* taken is taken.  On the behaviours of SpecDock WF_pc(FrameStep) is
\* WF_vars(NextDock)
SpecDockFair == SpecDock /\ WF_pc(FrameStep)

(***************************************************************************)
(* Properties.                                                             *)
(***************************************************************************)
MaxSpeedSq == (MAX_VELOCITY * UNIT) * (MAX_VELOCITY * UNIT)

\* the absolute normalized angular difference between two headings
AngleError(angle, target) ==
    Min2((target - angle) % 360, (angle - target) % 360)

\* the order of the size categories
CategoryRank(size_category) ==
    CASE size_category = "large" -> 3
      [] size_category = "medium" -> 2
      [] size_category = "small" -> 1

\* C1 (SpecZone): check_ship_interaction returns true exactly when the torus
\* distance between ship and zone is below ship.size + zone.size, the ship's
\* speed is at most MAX_PICKUP_VELOCITY, its interaction_cooldown is 0 and
\* the zone's type fits its cargo (pickup without cargo, dropoff with
\* cargo).  On true a pickup sets has_cargo, a dropoff clears it and adds
\* exactly 1 to credits, and both set interaction_cooldown to
\* INTERACTION_COOLDOWN, nothing else of the ship changing.  On false the
\* ship is unchanged, and the call never raises.
InteractionIffFourConditions ==
    call.op = "check_ship_interaction" =>
        LET z      == call.zone
            s      == call.before
            after  == ships[1]
            near   == BigLess(get_distance_sq(s, z), BigSq(s.size + z.size))
            slow   == SpeedSq(s.velocity_x, s.velocity_y)
                        <= (MAX_PICKUP_VELOCITY * UNIT) * (MAX_PICKUP_VELOCITY * UNIT)
            ready  == s.interaction_cooldown = 0
            fits   == \/ z.zone_type = "pickup" /\ ~s.has_cargo
                      \/ z.zone_type = "dropoff" /\ s.has_cargo
        IN  /\ call.ret \in BOOLEAN
            /\ call.ret <=> (near /\ slow /\ ready /\ fits)
            /\ (call.ret /\ z.zone_type = "pickup") =>
                  after = [s EXCEPT !.has_cargo = TRUE,
                                    !.interaction_cooldown = INTERACTION_COOLDOWN]
            /\ (call.ret /\ z.zone_type = "dropoff") =>
                  after = [s EXCEPT !.has_cargo = FALSE,
                                    !.credits = s.credits + 1,
                                    !.interaction_cooldown = INTERACTION_COOLDOWN]
            /\ ~call.ret => after = s

\* C1 witness: a drop-off that succeeds across both screen edges, at a speed
\* of exactly MAX_PICKUP_VELOCITY
DropoffAcrossEdgeAtSpeedCap ==
    /\ call.op = "check_ship_interaction"
    /\ call.ret
    /\ call.zone.zone_type = "dropoff"
    /\ call.before.x - call.zone.x > W \div 2
    /\ call.before.y - call.zone.y > H \div 2
    /\ SpeedSq(call.before.velocity_x, call.before.velocity_y)
         = (MAX_PICKUP_VELOCITY * UNIT) * (MAX_PICKUP_VELOCITY * UNIT)
    /\ ships[1].credits = call.before.credits + 1

\* C2 (Spec): in the game loop a ship that has cargo never succeeds at a
\* pickup and a ship without cargo never succeeds at a dropoff, and two
\* successful zone interactions of one ship are at least
\* INTERACTION_COOLDOWN ticks apart, so never in the same tick.
InteractionsExclusiveAndSpaced ==
    \A i \in 1..Len(ships) :
        /\ \A k \in 1..Len(log[i]) :
              /\ log[i][k].zone_type = "pickup" => ~log[i][k].had_cargo
              /\ log[i][k].zone_type = "dropoff" => log[i][k].had_cargo
        /\ \A k \in 1..Len(log[i]), m \in 1..Len(log[i]) :
              k < m => log[i][m].tick - log[i][k].tick >= INTERACTION_COOLDOWN

\* C2 witness: a ship that overlaps both zones has picked up and, later,
\* dropped off
PickupThenDropoffInBothZones ==
    \E i \in 1..Len(ships) :
        /\ Len(log[i]) >= 2
        /\ log[i][1].zone_type = "pickup"
        /\ log[i][2].zone_type = "dropoff"
        /\ Len(delivery_zones) = 2
        /\ is_colliding(delivery_zones[1], ships[i])
        /\ is_colliding(delivery_zones[2], ships[i])

\* C3 (SpecPredict): whenever the torus distance between the ship's and the
\* asteroid's horizon-ahead wrapped positions is within
\* ship.size + asteroid.size, a predict_collision that returns reports
\* will_collide with a finite time_to_collision of at most prediction_time.
PredictionSoundWithinHorizon ==
    (/\ call.op = "predict_collision"
     /\ ~call.ret.raised
     /\ BigLeq(FutureDistanceSq(call.ship, call.asteroid, call.prediction_time),
               BigSq(call.ship.size + call.asteroid.size)))
    => /\ call.ret.will_collide
       /\ call.ret.time_to_collision # Infinity
       /\ call.ret.time_to_collision <= call.prediction_time * TIME_UNIT

\* C4 (SpecPredict): for a ship at (100,100) with velocity (2,0) and a single
\* asteroid at (140,100) with velocity (-2,0), find_dangerous_asteroids with
\* prediction_time 60 returns exactly that asteroid, with a
\* time_to_collision of about 10 ticks (here: between 5 and 15).
HeadOnScenarioReported ==
    (/\ call.op = "find_dangerous_asteroids"
     /\ call.prediction_time = 60
     /\ call.ship.x = 100 * UNIT /\ call.ship.y = 100 * UNIT
     /\ call.ship.velocity_x = 2 * UNIT /\ call.ship.velocity_y = 0
     /\ Len(call.asteroids) = 1
     /\ call.asteroids[1].x = 140 * UNIT /\ call.asteroids[1].y = 100 * UNIT
     /\ call.asteroids[1].velocity_x = -2 * UNIT
     /\ call.asteroids[1].velocity_y = 0)
    => /\ ~call.ret.raised
       /\ Len(call.ret.dangerous) = 1
       /\ call.ret.dangerous[1].asteroid = 1
       /\ call.ret.dangerous[1].time_to_collision >= 5 * TIME_UNIT
       /\ call.ret.dangerous[1].time_to_collision <= 15 * TIME_UNIT

\* C5 (SpecPredict): predict_collision and estimate_braking_distance never
\* raise, whatever the ship and the asteroid.
PredictionAndBrakingNeverRaise ==
    call.op \in {"predict_collision", "estimate_braking_distance"}
        => ~call.ret.raised

\* C6 (Spec): in every state of a round every ship, asteroid and zone has
\* 0 <= x < SCREEN_WIDTH and 0 <= y < SCREEN_HEIGHT.
BodiesInsideScreen ==
    \A list \in {ships, asteroids, delivery_zones} :
        \A i \in 1..Len(list) :
            /\ 0 <= list[i].x /\ list[i].x < W
            /\ 0 <= list[i].y /\ list[i].y < H

\* C7 (SpecShip): from a ship created with zero velocity, whatever the
\* thrust and rotation commands, the ship's speed is at most MAX_VELOCITY.
SpeedAtMostMaxVelocity ==
    \A i \in 1..Len(ships) :
        SpeedSq(ships[i].velocity_x, ships[i].velocity_y) <= MaxSpeedSq

\* C7 witness: an update in which the thrust took the speed above
\* MAX_VELOCITY, so that the limit acted
LimitActed ==
    /\ call.op = "Ship_update"
    /\ call.before.thrust = 1
    /\ LET angle == (call.before.angle
                       + call.before.rotation * SHIP_ROTATION_SPEED) % 360
           v     == ThrustVelocity(call.before, angle)
       IN  SpeedSq(v[1], v[2]) > MaxSpeedSq

\* C8 (SpecUpdate): a Ship.update of a ship whose speed is above
\* MAX_VELOCITY, with thrust 0 or 1, leaves a speed of at most MAX_VELOCITY.
UpdateBringsSpeedUnderLimit ==
    (/\ call.op = "Ship_update"
     /\ call.before.thrust \in {0, 1}
     /\ SpeedSq(call.before.velocity_x, call.before.velocity_y) > MaxSpeedSq)
    => SpeedSq(ships[1].velocity_x, ships[1].velocity_y) <= MaxSpeedSq

\* C9 (SpecSteer): get_steering_direction(h, h) is 0 for every heading h, and
\* one update under a non-zero command it returned strictly reduces the
\* absolute normalized angular difference to the target, turning the
\* shorter way around.
SteeringTurnsShorterWay ==
    /\ (call.op = "get_steering_direction"
        /\ call.current_angle = call.target_angle) => call.ret = 0
    /\ (call.op = "get_steering_direction" /\ call.ret = 1)
          => (call.target_angle - call.current_angle) % 360 <= 180
    /\ (call.op = "get_steering_direction" /\ call.ret = -1)
          => (call.current_angle - call.target_angle) % 360 <= 180
    /\ (call.op = "Ship_update" /\ call.before.rotation # 0)
          => AngleError(ships[1].angle, target_angle)
               < AngleError(call.before.angle, target_angle)

\* C9 witness: a commanded turn that crosses 0 degrees on the shorter way to
\* the target
TurnAcrossZero ==
    /\ call.op = "Ship_update"
    /\ call.before.rotation = 1
    /\ ships[1].angle < call.before.angle
    /\ AngleError(ships[1].angle, target_angle) > 0

\* C10 (SpecFrag): break_apart of a large asteroid returns 2 or 3 asteroids,
\* all medium; of a medium one 2 or 3, all small; of a small one none; and
\* no piece has a category equal to or larger than its parent's.
FragmentsCountAndCategory ==
    call.op = "break_apart" =>
        LET parent == call.before
            pieces == call.ret
        IN  /\ parent.size_category = "large" =>
                  /\ Len(pieces) \in {2, 3}
                  /\ \A k \in 1..Len(pieces) : pieces[k].size_category = "medium"
            /\ parent.size_category = "medium" =>
                  /\ Len(pieces) \in {2, 3}
                  /\ \A k \in 1..Len(pieces) : pieces[k].size_category = "small"
            /\ parent.size_category = "small" => pieces = <<>>
            /\ \A k \in 1..Len(pieces) :
                  /\ CategoryRank(pieces[k].size_category)
                       < CategoryRank(parent.size_category)
                  /\ pieces[k].size
                       = ASTEROID_SIZES[pieces[k].size_category] * UNIT

\* C10 witness: a large asteroid broken into three pieces
LargeBrokenInThree ==
    /\ call.op = "break_apart"
    /\ call.before.size_category = "large"
    /\ Len(call.ret) = 3

\* C11 as stated (SpecFrag): every piece of a large asteroid at (500,500)
\* lies within distance size/2 = 20 of (500,500).
PiecesWithinHalfSizeDistance ==
    (/\ call.op = "break_apart"
     /\ call.before.size_category = "large"
     /\ call.before.x = 500 * UNIT /\ call.before.y = 500 * UNIT)
    => \A k \in 1..Len(call.ret) :
          LET dx == call.ret[k].x - call.before.x
              dy == call.ret[k].y - call.before.y
          IN  BigLeq(BigAdd(BigSq(dx), BigSq(dy)),
                     BigSq(call.before.size \div 2))

\* C11 (SpecFrag): every piece of a broken asteroid, and so of a large one at
\* (500,500), is offset from its parent by at most size/2 along each axis
\* (for the large one 20), so that it lies within distance
\* sqrt(2) * size/2 of the parent (about 28.3), not within size/2.
PiecesWithinHalfSizeBox ==
    call.op = "break_apart" =>
        \A k \in 1..Len(call.ret) :
            LET dx == call.ret[k].x - call.before.x
                dy == call.ret[k].y - call.before.y
                half == call.before.size \div 2
            IN  /\ Abs(dx) <= half
                /\ Abs(dy) <= half
                /\ BigLeq(BigAdd(BigSq(dx), BigSq(dy)),
                          BigAdd(BigSq(half), BigSq(half)))

\* C11 witness: a piece of the large asteroid at (500,500) in a corner of
\* the box of offsets, farther than size/2 from the parent
PieceInCornerOfBox ==
    /\ call.op = "break_apart"
    /\ call.before.size_category = "large"
    /\ call.before.x = 500 * UNIT /\ call.before.y = 500 * UNIT
    /\ \E k \in 1..Len(call.ret) :
          /\ Abs(call.ret[k].x - call.before.x) = call.before.size \div 2
          /\ Abs(call.ret[k].y - call.before.y) = call.before.size \div 2

\* C12 (SpecDistance): a.get_distance(b) equals b.get_distance(a), and the
\* value never exceeds sqrt((SCREEN_WIDTH/2)^2 + (SCREEN_HEIGHT/2)^2).
DistanceSymmetricAndBounded ==
    call.op = "get_distance" =>
        /\ call.ret = call.swapped
        /\ call.ret_sq = call.swapped_sq
        /\ BigLeq(call.ret_sq, BigAdd(BigSq(W \div 2), BigSq(H \div 2)))

\* C12 witness: two bodies half a screen apart along both axes, at the
\* largest distance there is
DistanceAtItsLargest ==
    /\ call.op = "get_distance"
    /\ call.a.x # call.b.x
    /\ call.ret_sq = BigAdd(BigSq(W \div 2), BigSq(H \div 2))

\* C13 (SpecPredict): a find_dangerous_asteroids that returns gives exactly
\* the asteroids of the list that are within max_distance of the ship by
\* torus distance and for which predict_collision reports a collision, each
\* once, with its distance and its time_to_collision, in order of
\* non-decreasing time_to_collision.
DangerousExactAndSorted ==
    (call.op = "find_dangerous_asteroids" /\ ~call.ret.raised) =>
        LET D == call.ret.dangerous
            within(j) ==
                BigLeq(get_distance_sq(call.ship, call.asteroids[j]),
                       BigSq(call.max_distance))
            p(j) == predict_collision(call.ship, call.asteroids[j],
                                      call.prediction_time)
        IN  /\ {D[k].asteroid : k \in 1..Len(D)}
                 = {j \in 1..Len(call.asteroids) : within(j) /\ p(j).will_collide}
            /\ \A k \in 1..Len(D), m \in 1..Len(D) :
                  k # m => D[k].asteroid # D[m].asteroid
            /\ \A k \in 1..Len(D) :
                  /\ D[k].distance = get_distance(call.ship, call.asteroids[D[k].asteroid])
                  /\ D[k].time_to_collision = p(D[k].asteroid).time_to_collision
            /\ \A k \in 1..(Len(D) - 1) :
                  D[k].time_to_collision <= D[k + 1].time_to_collision

\* C13 witness: two asteroids, both returned, in the other order than given
DangerousReordered ==
    /\ call.op = "find_dangerous_asteroids"
    /\ ~call.ret.raised
    /\ Len(call.asteroids) = 2
    /\ Len(call.ret.dangerous) = 2
    /\ call.ret.dangerous[1].asteroid = 2
    /\ call.ret.dangerous[1].time_to_collision
         < call.ret.dangerous[2].time_to_collision

\* C14, as the specification states it: every call of make_decision, of
\* every variant in every mode on every input, returns a pair (thrust,
\* rotation) with thrust in {0, 1} and rotation in {-1, 0, 1}.  The call of
\* the cautious variant on a ship at rest that a drifting large asteroid
\* touches returns nothing: predict_collision divides by zero.
DecisionIsControlPair ==
    call.op = "make_decision" =>
        /\ ~call.raised
        /\ call.thrust \in {0, 1}
        /\ call.rotation \in {-1, 0, 1}

\* the five modes the specification names
FiveModes == {"cruise", "avoid", "evade", "pickup", "dropoff"}

NextPhase ==
    [controls |-> "entities", entities |-> "collisions",
     collisions |-> "respawn", respawn |-> "zones", zones |-> "spawn_zones",
     spawn_zones |-> "win", win |-> "controls"]

\* C16: a tick decides all, then integrates all, then resolves all.  The
\* call that chooses the controls moves no ship and no asteroid, and every
\* decision in it finds the ships and the asteroids where they were when the
\* tick began; the next call integrates every live ship and every asteroid
\* once; the calls after it (collisions and fragmentation, the new asteroid,
\* the zones, the win conditions) come once each in this order and move no
\* ship.
DecideIntegrateResolve ==
    [][/\ pc' = NextPhase[pc]
       /\ pc = "controls" =>
             /\ Places(ships') = Places(ships)
             /\ asteroids' = asteroids
             /\ call'.asteroids = Places(asteroids)
             /\ \A i \in 1..Len(ships) : call'.observed[i] = Places(ships)
       /\ pc = "entities" =>
             /\ \A k \in 1..Len(ships) :
                   ships'[k] = IF ships[k].destroyed THEN ships[k]
                               ELSE Ship_update(ships[k])
             /\ Len(asteroids') = Len(asteroids)
             /\ \A j \in 1..Len(asteroids) :
                   asteroids'[j] = Asteroid_update(asteroids[j])
       /\ pc \notin {"controls", "entities"} =>
             /\ Places(ships') = Places(ships)
             /\ \A k \in 1..Len(ships) :
                   /\ ships'[k].velocity_x = ships[k].velocity_x
                   /\ ships'[k].velocity_y = ships[k].velocity_y
                   /\ ships'[k].angle = ships[k].angle]_vars

\* C16 witness: the controls of a tick are chosen while a ship is under way,
\* and the decision of a ship after it in the list found it where it was
DecidedWhileUnderWay ==
    /\ pc = "entities"
    /\ call.op = "update_ship_controls"
    /\ \E i, k \in 1..Len(ships) :
          /\ i < k
          /\ ~ships[i].destroyed /\ ~ships[k].destroyed
          /\ ships[i].velocity_x # 0 \/ ships[i].velocity_y # 0
          /\ ships[i].thrust = 1
          /\ call.observed[k][i] = Place(ships[i])

\* a zone that has time left
StillActive(zone) == zone.active_time > 0

\* the zones a frame older
AFrameOlder(zones) ==
    [k \in 1..Len(zones) |-> [zones[k] EXCEPT !.active_time = @ - 1]]

\* C17: every zone in the list has active_time > 0; update_delivery_zones
\* makes every zone one frame older and removes, in that frame, exactly the
\* zones whose active_time has reached 0, used or not; no other call of the
\* frame changes a zone or removes one.  A zone therefore leaves the list in
\* the ZONE_ACTIVE_TIME-th frame after the one that spawned it.
ZonesLiveTheirTime ==
    /\ [](\A k \in 1..Len(delivery_zones) : StillActive(delivery_zones[k]))
    /\ [][/\ pc = "zones" =>
                delivery_zones' = SelectSeq(AFrameOlder(delivery_zones), StillActive)
          /\ pc # "zones" =>
                \/ delivery_zones' = delivery_zones
                \/ delivery_zones = <<>>]_vars

\* C17 witness: both zones have just expired and are gone; the first ship
\* used the pickup zone, nobody the dropoff zone
BothExpiredOneUsed ==
    /\ pc = "spawn_zones"
    /\ delivery_zones = <<>>
    /\ \E n \in 1..Len(log[1]) : log[1][n].zone_type = "pickup"
    /\ \A i \in 1..Len(ships) :
          \A n \in 1..Len(log[i]) : log[i][n].zone_type # "dropoff"

\* the list holds one pickup zone and one dropoff zone
IsPair(zones) ==
    /\ Len(zones) = 2
    /\ zones[1].zone_type = "pickup"
    /\ zones[2].zone_type = "dropoff"

\* C18: the zone list is always empty or one pickup zone and one dropoff
\* zone; a zone is added to it only by spawn_delivery_zones, only to the
\* empty list, and then as such a pair of new zones.
ZonesComeInPairs ==
    /\ [](delivery_zones = <<>> \/ IsPair(delivery_zones))
    /\ [][Len(delivery_zones') > Len(delivery_zones) =>
             /\ pc = "spawn_zones"
             /\ delivery_zones = <<>>
             /\ IsPair(delivery_zones')
             /\ \A k \in 1..2 :
                   delivery_zones'[k].active_time = ZONE_ACTIVE_TIME]_vars

\* C18 witness: zone_spawn_timer has just run out and was reset while the
\* two zones were active, and no zone was spawned
TimerRanOutOverActiveZones ==
    /\ pc = "win"
    /\ zone_spawn_timer = ZONE_SPAWN_INTERVAL
    /\ IsPair(delivery_zones)
    /\ delivery_zones[1].active_time = ZONE_SPAWN_INTERVAL
    /\ delivery_zones[2].active_time = ZONE_SPAWN_INTERVAL

\* C19: when a frame is over, game_over is true exactly if some ship has 5
\* credits or more, or at most one ship is not destroyed.
GameOverIffGoalOrLastShip ==
    pc = "controls" =>
        (game_over <=>
            \/ \E i \in 1..Len(ships) : ships[i].credits >= 5
            \/ Cardinality({i \in 1..Len(ships) : ~ships[i].destroyed}) <= 1)

\* C19 witness: the round is over because one ship is left, no ship having
\* reached the credit goal
OverWithOneShipLeft ==
    /\ pc = "controls"
    /\ game_over
    /\ tick > 0
    /\ Cardinality({i \in 1..Len(ships) : ~ships[i].destroyed}) = 1
    /\ \A i \in 1..Len(ships) : ships[i].credits < 5

\* C20: no call of the frame changes a destroyed ship: its destroyed flag,
\* position, velocity, heading, controls, has_cargo, credits and
\* interaction_cooldown stay as they are.
DestroyedShipsStayAsTheyAre ==
    [][\A i \in 1..Len(ships) : ships[i].destroyed => ships'[i] = ships[i]]_vars

\* C20 witness: the wreck of the third ship, left under thrust with cargo
\* and some speed, has lain in the active dropoff zone for three frames and
\* has neither moved nor delivered; the first ship is destroyed by now too
WreckInDropoffZone ==
    /\ tick >= 3
    /\ ships[3].destroyed
    /\ ships[3].thrust = 1 /\ ships[3].velocity_x # 0
    /\ ships[3].has_cargo /\ ships[3].credits = 4
    /\ ships[3].interaction_cooldown = 0
    /\ \E k \in 1..Len(delivery_zones) :
          /\ delivery_zones[k].zone_type = "dropoff"
          /\ is_colliding(delivery_zones[k], ships[3])
    /\ ships[1].destroyed

\* the danger set a call of make_decision computed: the entries of
\* _find_dangerous_asteroids for the ship and the asteroids it was given
DangerSet(c) ==
    _find_dangerous_asteroids(c.ship, c.asteroids, c.before.variant).dangerous

NearestWithinReaction(c) ==
    WithinReaction(c.ship, c.asteroids,
                   _find_closest_asteroid(c.ship, c.asteroids), c.before.variant)

\* the zone a call's ship is after, 0 if the list has no zone of its type
SuitableZone(c) ==
    find_closest_zone_by_type(c.ship, c.delivery_zones, TargetType(c.ship))

\* a call short-circuits: it returns from the delivery block that comes
\* before the threats are looked at (original.py:49-63, cautious.py:63-80,
\* delivery.py:61-84)
ShortCircuits(c) ==
    LET zone == c.delivery_zones[SuitableZone(c)]
        within(factor) ==
            BigLess(get_distance_sq(c.ship, zone),
                    BigSq(REACTION_DISTANCE[c.before.variant] * factor * UNIT))
    IN  IF c.before.variant = "original"
        THEN DangerSet(c) = <<>> /\ SuitableZone(c) # 0 /\ within(3)
        ELSE IF c.before.variant = "cautious"
        THEN /\ Len(DangerSet(c)) <= 1
             /\ SuitableZone(c) # 0
             /\ within(2)
             /\ ~_zone_path_has_threats(c.ship, zone, c.asteroids)
        ELSE /\ c.delivery_zones # <<>>
             /\ DangerSet(c) = <<>>
             /\ SuitableZone(c) # 0 \/ c.ship.has_cargo

\* a call of make_decision has returned
Returned == call.op = "make_decision" /\ ~call.raised

\* C23: after a call of make_decision that returns without short-circuiting
\* into delivery pursuit, whatever the instance was doing before, the mode is
\* evade exactly if the danger set of the call is non-empty, avoid exactly if
\* it is empty and the nearest asteroid is within REACTION_DISTANCE, and
\* cruise otherwise.  The code keeps pickup and dropoff, and any mode while
\* course_change_timer runs, when the call finds no threat.
ModeFollowsThreats ==
    (Returned /\ ~ShortCircuits(call)) =>
        ship_ais[1].current_mode =
            IF DangerSet(call) # <<>> THEN "evade"
            ELSE IF NearestWithinReaction(call) THEN "avoid"
            ELSE "cruise"

\* the dangerous asteroids a variant pursues a delivery with
DangerTolerated(variant) == IF variant = "cautious" THEN 1 ELSE 0

\* C24: a call of make_decision that ends in pickup or dropoff mode found at
\* most DangerTolerated dangerous asteroids (none for the original and the
\* delivery variant, one for the cautious variant), and a call that found
\* more ends in evade mode, whatever the mode before and whatever the zones.
DeliveryOnlyWhenSafe ==
    Returned =>
        /\ ship_ais[1].current_mode \in {"pickup", "dropoff"} =>
               Len(DangerSet(call)) <= DangerTolerated(call.before.variant)
        /\ Len(DangerSet(call)) > DangerTolerated(call.before.variant) =>
               ship_ais[1].current_mode = "evade"

\* C24 witness: a cautious instance on its way to a pickup zone is given two
\* asteroids on collision course and ends in evade mode
PursuitGivenUpForTwoThreats ==
    /\ Returned
    /\ call.before.variant = "cautious"
    /\ call.before.current_mode = "pickup"
    /\ call.before.target_zone # None
    /\ Len(DangerSet(call)) = 2
    /\ ship_ais[1].current_mode = "evade"
    /\ ship_ais[1].target_zone = None

\* C25: for every variant, a call of make_decision that ends in evade mode
\* returns thrust 1.  The cautious variant on its way to a safe spot thrusts
\* only when it points within 45 degrees of the spot, and an evade mode kept
\* without a dangerous asteroid returns no thrust.
EvadeAlwaysThrusts ==
    (Returned /\ ship_ais[1].current_mode = "evade") => call.thrust = 1

\* C26: the delivery variant leaves a call of make_decision in a mode other
\* than pickup and dropoff with its docking state reset: approach_phase is
\* direct, braking_started false and target_zone None.  The call that sets
\* wait_for_dropoff resets none of them.
DockingStateResetOffDelivery ==
    (/\ Returned
     /\ ship_ais[1].variant = "delivery"
     /\ ship_ais[1].current_mode \notin {"pickup", "dropoff"}) =>
        /\ ship_ais[1].approach_phase = "direct"
        /\ ~ship_ais[1].braking_started
        /\ ship_ais[1].target_zone = None

\* the speed under which a variant holds its position inside a zone:
\* 0.8, 0.7 and 0.8 times MAX_PICKUP_VELOCITY
SlowThreshold ==
    [original |-> (MAX_PICKUP_VELOCITY * UNIT * 8) \div 10,
     cautious |-> (MAX_PICKUP_VELOCITY * UNIT * 7) \div 10,
     delivery |-> (MAX_PICKUP_VELOCITY * UNIT * 8) \div 10]

\* C29: a call of make_decision that ends in pickup or dropoff mode, for a
\* ship inside the radius of the target zone and not faster than the slow
\* threshold of the variant, returns (0, 0) whatever the heading.  The
\* original variant keeps turning towards the centre of the zone.
HoldsPositionWhenSlowInZone ==
    (/\ Returned
     /\ ship_ais[1].current_mode \in {"pickup", "dropoff"}
     /\ ship_ais[1].target_zone # None
     /\ BigLess(get_distance_sq(call.ship, ship_ais[1].target_zone),
                BigSq(ship_ais[1].target_zone.size))
     /\ ~FasterThan(call.ship, SlowThreshold[ship_ais[1].variant])) =>
        /\ call.thrust = 0
        /\ call.rotation = 0

\* the ships that overlap some asteroid and are not destroyed
Overlapping(ss, as) ==
    {i \in 1..Len(ss) : ~ss[i].destroyed /\ FirstColliding(ss[i], as) # 0}

\* C30: check_collisions marks as destroyed every ship that is not destroyed
\* and overlaps some asteroid when the call starts, also when two ships
\* overlap the same asteroid
EveryOverlappingShipDestroyed ==
    [][pc = "collisions" =>
          \A i \in Overlapping(ships, asteroids) : ships'[i].destroyed]_vars

\* two ships overlap the same asteroid when check_collisions is called
TwoShipsOnOneAsteroid ==
    /\ pc = "collisions"
    /\ \E i, k \in Overlapping(ships, asteroids) :
          /\ i # k
          /\ FirstColliding(ships[i], asteroids) = FirstColliding(ships[k], asteroids)

\* some check_ship_interaction of the flight has succeeded
Docked == ships[1].has_cargo \/ ships[1].credits > 0

\* C21: with no asteroids and the zone of the matching type staying where it
\* is, make_decision and Ship.update frame after frame eventually bring the
\* ship of a DeliveryFocusedAI into the zone slowly enough for
\* check_ship_interaction to succeed, from any start
EventuallyDocks == <>Docked

\* the decision was taken on the way to a zone
DockingDecision ==
    /\ Returned
    /\ ship_ais[1].variant = "delivery"
    /\ ship_ais[1].current_mode \in {"pickup", "dropoff"}
    /\ ship_ais[1].target_zone # None

\* C27: on every approach, the one to a dropoff zone right after a pickup
\* included, the first docking decision that finds the ship outside the
\* final radius and closer than 1.5 times the estimated braking distance
\* enters the brake phase
BrakesWhenFirstDue ==
    (DockingDecision /\ call.first_due) =>
        /\ ship_ais[1].approach_phase = "brake"
        /\ ship_ais[1].braking_started

\* C28: after a docking decision approach_phase is 'final' only while the
\* ship is inside the final radius of the zone
FinalOnlyInsideFinalRadius ==
    (DockingDecision /\ ship_ais[1].approach_phase = "final") =>
        InFinalRadius(call.ship, ship_ais[1].target_zone)

\* C31: a successful check_ship_interaction leaves the zone as it is: after
\* update_delivery_zones a zone that served a ship and has time left is in
\* the list with the zone_type, the position and the active_time it had when
\* it served
ServingZoneStays ==
    [][pc = "zones" =>
          \A i \in 1..Len(ships) :
              Len(log'[i]) > Len(log[i]) =>
                  LET e == log'[i][Len(log'[i])]
                  IN  e.active_time > 0 =>
                          \E j \in 1..Len(delivery_zones), k \in 1..Len(delivery_zones') :
                              /\ delivery_zones[j].zone_type = e.zone_type
                              /\ delivery_zones'[k] =
                                     [delivery_zones[j] EXCEPT
                                         !.active_time = e.active_time]]_vars

\* C31 witness: the pickup zone has served the first and the second ship in
\* the same frame and is in the list a frame later, a frame older
OneZoneServedTwoShips ==
    /\ pc = "controls"
    /\ \A i \in 1..2 :
          /\ Len(log[i]) = 1
          /\ log[i][1].zone_type = "pickup"
          /\ log[i][1].tick = tick - 2
          /\ ships[i].has_cargo
    /\ Len(delivery_zones) = 2
    /\ delivery_zones[1].zone_type = "pickup"
    /\ delivery_zones[1].active_time = log[1][1].active_time - 1

\* C35: no ship completes a pickup or a dropoff with a zone whose
\* active_time is 0 or less: a zone that expires in a frame serves no ship in
\* that frame or later
NoServiceFromExpiredZone ==
    \A i \in 1..Len(ships) :
        \A n \in 1..Len(log[i]) : log[i][n].active_time > 0

\* C32: once game_over is set the round is frozen: in every later frame
\* game_over stays true and no ship, asteroid or zone and not
\* zone_spawn_timer changes, so no credits and no cargo either
RoundFrozenOnceOver ==
    [][game_over =>
          /\ game_over'
          /\ ships' = ships
          /\ asteroids' = asteroids
          /\ delivery_zones' = delivery_zones
          /\ zone_spawn_timer' = zone_spawn_timer]_vars

\* C32 witness: the loop is in the frames after a round that ended with the
\* fifth credit of the second ship while the first ship, under thrust, had
\* just picked up, the asteroid was on its way and both zones were active
FrozenInFullFlight ==
    /\ pc = "over"
    /\ game_over
    /\ ships[2].credits = 5
    /\ ~ships[1].destroyed /\ ships[1].has_cargo /\ ships[1].thrust = 1
    /\ Len(asteroids) > 0
    /\ IsPair(delivery_zones)
    /\ zone_spawn_timer > 0

\* the zone is in the list
InZoneList(ref, zones) == \E k \in 1..Len(zones) : ZoneRef(zones[k]) = ref

\* C33: a make_decision call that ends in mode 'pickup' or 'dropoff' steers
\* towards a zone of the delivery_zones list it was given, never towards a
\* zone that has left the list
TargetZoneIsListed ==
    (Returned /\ ship_ais[1].current_mode \in {"pickup", "dropoff"}) =>
        /\ ship_ais[1].target_zone # None
        /\ InZoneList(ship_ais[1].target_zone, call.delivery_zones)

\* C34: after every make_decision call mode 'pickup' goes with a ship
\* without cargo and a pickup zone as target_zone, mode 'dropoff' with a
\* loaded ship and a dropoff zone as target_zone, also on the frames after
\* a pickup or a dropoff
ModeMatchesCargo ==
    \A mode \in {"pickup", "dropoff"} :
        (Returned /\ ship_ais[1].current_mode = mode) =>
            /\ TargetType(call.ship) = mode
            /\ ship_ais[1].target_zone # None
            /\ ship_ais[1].target_zone.zone_type = mode

\* the successful interactions of the kind in a ship's log
Successes(lg, zone_type) ==
    Cardinality({n \in 1..Len(lg) : lg[n].zone_type = zone_type})

\* C36: in every state of a round every ship has credits >= 0, as many
\* credits as it has completed dropoffs, and one pickup more than dropoffs
\* if it has cargo and as many if not; credits never decrease
CreditsCountDropoffs ==
    /\ [](\A i \in 1..Len(ships) :
             /\ ships[i].credits >= 0
             /\ ships[i].credits = Successes(log[i], "dropoff")
             /\ Successes(log[i], "pickup") - Successes(log[i], "dropoff")
                  = IF ships[i].has_cargo THEN 1 ELSE 0)
    /\ [][\A i \in 1..Len(ships) : ships'[i].credits >= ships[i].credits]_vars

\* C36 witness: a ship has picked up, has delivered for its first credit and
\* is empty again
FirstCreditEarned ==
    \E i \in 1..Len(ships) :
        /\ ships[i].credits = 1
        /\ ~ships[i].has_cargo
        /\ Successes(log[i], "pickup") = 1
        /\ Successes(log[i], "dropoff") = 1

\* C37: the ship check_win_conditions reports as the winner at the end of a
\* frame is not destroyed, and when some ship has the 5 credits of the goal
\* the winner is a ship with 5 credits or more
WinnerAliveAndCredited ==
    (pc = "win" /\ winning_ship(ships) # 0) =>
        /\ ~ships[winning_ship(ships)].destroyed
        /\ (\E i \in 1..Len(ships) : ships[i].credits >= 5) =>
               ships[winning_ship(ships)].credits >= 5

\* C37 witness: the second ship has just delivered for its fifth credit and
\* is reported the winner with the first ship alive as well, next to the
\* wreck of the third
WinnerByCreditsAmongSurvivors ==
    /\ pc = "win"
    /\ winning_ship(ships) = 2
    /\ ships[2].credits = 5
    /\ Len(log[2]) > 0
    /\ ~ships[1].destroyed
    /\ ships[3].destroyed

\* C38: in a running round an empty zone list gets a new pair within
\* ZONE_SPAWN_INTERVAL frames and the first pair is there within 6*FPS
\* frames of the start: while the list is empty zone_spawn_timer is between
\* 1 and ZONE_SPAWN_INTERVAL, spawn_delivery_zones alone changes it, counts
\* it down by one a frame and, when it reaches 0, resets it to
\* ZONE_SPAWN_INTERVAL, zones or not, and spawns a pair into an empty list
SpawnedWithinInterval ==
    /\ [](delivery_zones = <<>> =>
             /\ zone_spawn_timer \in 1..ZONE_SPAWN_INTERVAL
             /\ pc = "controls" => tick < 6 * FPS)
    /\ [][IF pc = "spawn_zones"
          THEN IF zone_spawn_timer - 1 <= 0
               THEN /\ zone_spawn_timer' = ZONE_SPAWN_INTERVAL
                    /\ delivery_zones = <<>> => IsPair(delivery_zones')
               ELSE /\ zone_spawn_timer' = zone_spawn_timer - 1
                    /\ delivery_zones' = delivery_zones
          ELSE zone_spawn_timer' = zone_spawn_timer]_vars

\* C38 witness: the first pair came in the last of the 6*FPS frames, the
\* timer ran out once over the active zones and was reset, and the pair that
\* follows has been spawned in the frame the first was removed
SecondPairFollowsFirst ==
    /\ pc = "win"
    /\ tick = 6 * FPS - 1 + ZONE_ACTIVE_TIME
    /\ IsPair(delivery_zones)
    /\ delivery_zones[1].active_time = ZONE_ACTIVE_TIME
    /\ zone_spawn_timer = ZONE_SPAWN_INTERVAL

\* the command get_steering_direction gives for the ship's heading
SteeringCommand == get_steering_direction(ships[1].angle, target_angle)

\* the difference of get_steering_direction, line 36, for the ship's heading
HeadingError == ((target_angle - ships[1].angle + 180) % 360) - 180

\* C39: steering a ship at a fixed target heading from any heading, the
\* command of get_steering_direction is 0 after at most 60 frames with the
\* heading less than 5 degrees from the target, a command of 0 stays 0, and
\* a turning ship never gets to the other side of the target
SteeringSettles ==
    /\ [](tick >= 60 => SteeringCommand = 0 /\ Abs(HeadingError) < 5)
    /\ [][/\ SteeringCommand = 0 => SteeringCommand' = 0
          /\ HeadingError > 0 => HeadingError' > 0
          /\ HeadingError < 0 => HeadingError' < 0]_vars

\* C39 witness: a ship that has turned in each of the first 59 frames has
\* the command 0 in the 60th
SettledAfterHalfTurn ==
    /\ pc = "steer"
    /\ tick = 59
    /\ call.op = "Ship_update"
    /\ call.before.rotation # 0
    /\ SteeringCommand = 0

=============================================================================
